---- MODULE Spec2Model ----
(***************************************************************************)
(* Scheduler core of the Constance kernel (constance/src/kernel/task.rs)   *)
(* running on the simulated port (constance_port_std/src/lib.rs).          *)
(*                                                                         *)
(* A uniprocessor: at any time either the boot code (with the startup hook *)
(* of the interrupt_during_boot test), a first-level                       *)
(* interrupt handler, the dispatcher (the lowest-priority interrupt) or    *)
(* the thread of one task is executing.  Every section of code executed    *)
(* with CPU Lock active is one step; the places where CPU Lock is inactive *)
(* inside a system call (after drop(lock) and before yield_cpu, around the *)
(* wait loop, inside exit_and_dispatch) are step boundaries, so that       *)
(* interrupt handlers and the dispatcher interleave there.                 *)
(***************************************************************************)
EXTENDS Integers, Sequences, FiniteSets, TLC

\* ---- bounds of the model ------------------------------------------------
NumTasks == 3
NumPriorityLevels == 2

\* The managed interrupt priorities of the model are
\* ManagedPriorityStart..(ManagedPriorityEnd - 1); the priorities that callers
\* present go from one below the start to the end
ManagedPriorityStart == 1
ManagedPriorityEnd == 3

\* The tasks that wait on the event group and the priorities they can have
NumWaiters == 4
NumWaitPriorities == 3

\* The PLIC of the model: the platform interrupt lines are
\* INTERRUPT_PLATFORM_START..(INTERRUPT_PLATFORM_START + MAX_NUM), the
\* priorities of the sources go up to MAX_PRIORITY, and an interrupt number
\* (usize) has UsizeBits bits
INTERRUPT_PLATFORM_START == 2
MAX_NUM == 2
MAX_PRIORITY == 2
UsizeBits == 3

\* ---- program constants --------------------------------------------------
\* usize::max_value(), the priority that stands for "no task"; it exceeds every
\* task priority (the largest integer the model checker represents is used)
UsizeMax == 2147483647

Tasks == 1..NumTasks
Priorities == 0..(NumPriorityLevels - 1)
None == 0

TaskSt == {"Dormant", "Ready", "Running", "Waiting", "PendingActivation"}
Tsm == {"Uninit", "Dormant", "Running"}

VARIABLES
    st,                 \* TaskCb::st of every task
    priority,           \* TaskCb::priority of every task (static)
    active_at_start,    \* history: the tasks configured active, PendingActivation at boot
    task_ready_queue,   \* State::task_ready_queue, one FIFO per priority
    task_ready_bitmap,  \* State::task_ready_bitmap, the set of set bits
    running_task,       \* State::running_task (None = 0)
    tsm,                \* port: TaskState::tsm of every task
    panicked,           \* a panic (assert, unwrap, unreachable!, todo!) aborted the system
    cpu_lock,           \* port: SchedState::cpu_lock
    dispatch_pended,    \* port: INTERRUPT_LINE_DISPATCH is pended
    phase,              \* "boot", "hook", "in_hook", "first_dispatch", then "run"
    task_thread,        \* port: SchedState::task_thread, the task whose thread executes
    exiting,            \* port: a recycled thread is inside exit_and_dispatch, before yield_cpu
    pc,                 \* position of every task's thread
    call,               \* the system call every task's thread is inside of
    line_enable,        \* port: the application's interrupt line is enabled
    line_pended,        \* port: the application's interrupt line is pended
    seq,                \* the application's SeqTracker (interrupt_during_boot)
    first_task_started, \* history: the dispatcher has given the processor to a task
    started,            \* history: the tasks that have been made Running and have
                        \* neither blocked nor exited since
    late,               \* history: for every task, the tasks of its priority that
                        \* became Ready after it started running
    exit_with_lock,     \* history: CPU Lock was active when exit_task was last called
    line_priority,      \* port: the priority of the application's interrupt line
    wait_queue,         \* the wait queue of the event group (QueueOrder::TaskPriority)
    waiter_priority,    \* the priority of every task that uses the event group
    wait_order,         \* history: the waiters in the order in which they came to wait
                        \* at the priority they have now
    woken,              \* history: the tasks woken up, in the order of their wake-up
    frame,              \* the position and the locals of every context inside the
                        \* kernel's functions, step by step
    port_fault,         \* history: the port call whose precondition failed
    psp,                \* Arm-M port: the task into whose stack PSP points
    task_stack,         \* Arm-M port: what every task's stack and TaskState::sp hold
    handler,            \* Arm-M port: the active SVCall and PendSV handlers, innermost first
    plic_regs,          \* PLIC driver: the registers of the controller (System::plic_regs)
    plic_handlers,      \* PLIC driver: the invocations of interrupt_handler, innermost first
    plic_call,          \* PLIC driver: the last call of an interrupt line operation
    plic_done           \* history: the invocation of interrupt_handler that returned last

vars == <<st, priority, active_at_start, task_ready_queue, task_ready_bitmap, running_task, tsm,
          panicked, cpu_lock, dispatch_pended, phase, task_thread, exiting, pc, call,
          line_enable, line_pended, seq, first_task_started, started, late,
          exit_with_lock,
          line_priority,
          wait_queue, waiter_priority, wait_order, woken, frame, port_fault,
          psp, task_stack, handler,
          plic_regs, plic_handlers, plic_call, plic_done>>

\* The application's interrupt line and its sequence tracker
intr == <<line_enable, line_pended, seq>>

\* What the steps other than those of the dispatcher leave unchanged
hist == <<first_task_started, started, late, exit_with_lock>>

\* The event group: its wait queue, its tasks and their history
wq == <<wait_queue, waiter_priority, wait_order, woken>>

\* The kernel's functions step by step: the contexts and the port's assertions
fine == <<frame, port_fault>>

\* The Arm-M port: the process stack pointer, the task stacks and the
\* exception handlers of the dispatcher
arm == <<psp, task_stack, handler>>

\* The PLIC driver of the RISC-V port: the controller's registers, the
\* invocations of the handler of the external interrupt and the calls of the
\* interrupt line operations
plic == <<plic_regs, plic_handlers, plic_call, plic_done>>

\* The state of the ports other than the simulated one
ports == <<arm, plic>>

\* What the steps of the scheduler leave unchanged: the priority of the
\* interrupt line, the event group and the contexts of the stepwise functions
ext == <<line_priority, wq, fine, ports>>

\* The contexts that execute the kernel's functions: the threads of the
\* tasks, a first-level interrupt handler, the dispatcher and the boot code
IsrCtx == NumTasks + 1
DispCtx == NumTasks + 2
BootCtx == NumTasks + 3
Ctx == Tasks \cup {IsrCtx, DispCtx, BootCtx}

\* The tasks that use the event group and their priorities
Waiters == 1..NumWaiters
WaitPriorities == 1..NumWaitPriorities

\* The priorities the waiters are created with: task1 and task3 have
\* priority 1, task2 and task4 have priority 2
InitialWaiterPriority == [w \in Waiters |-> IF w % 2 = 1 THEN 1 ELSE 2]

\* The kernel-owned part of the state (and the port's task contexts), as a
\* value that the translated functions take and return.
KState ==
    [st |-> st, q |-> task_ready_queue, bm |-> task_ready_bitmap,
     rt |-> running_task, tsm |-> tsm, panic |-> panicked]

NoCall == [op |-> "none", target |-> None, result |-> "none"]

SeqToSet(s) == {s[i] : i \in 1..Len(s)}

Min(S) == CHOOSE x \in S : \A y \in S : x <= y

\* PrioBitmap::find_set().unwrap_or(usize::max_value())
FindSet(bm) == IF bm = {} THEN UsizeMax ELSE Min(bm)

\* ListAccessorCell::push_back, as used by make_ready
PushBack(queue, t) == Append(queue, t)

\* InitializeTaskState that leaves an uninitialized context as it is
InitializeTaskState_KeepsUninit(k, t) ==
    CASE k.tsm[t] = "Running" -> [k EXCEPT !.panic = TRUE]
      [] OTHER                -> k

\* Port::initialize_task_state (simulated port)
InitializeTaskState(k, t) ==
    CASE k.tsm[t] = "Dormant" -> k
      [] k.tsm[t] = "Running" -> [k EXCEPT !.panic = TRUE]
      [] OTHER                -> [k EXCEPT !.tsm[t] = "Dormant"]

\* MakeReady that links the task into bucket 0 whatever its priority
MakeReady_BucketZero(k, t) ==
    [k EXCEPT !.st[t] = "Ready",
              !.q[0] = PushBack(k.q[0], t),
              !.bm = k.bm \cup {0}]

\* make_ready
MakeReady(k, t) ==
    LET pri == priority[t]
    IN  [k EXCEPT !.st[t] = "Ready",
                  !.q[pri] = PushBack(k.q[pri], t),
                  !.bm = k.bm \cup {pri}]

\* CheckPreemption that never asks for yield_cpu
CheckPreemption_Never(k) == FALSE

\* The comparison of unlock_cpu_and_check_preemption: TRUE iff yield_cpu is
\* to be called after CPU Lock has been released.
CheckPreemption(k) ==
    LET prev_task_priority == IF k.rt # None THEN priority[k.rt] ELSE UsizeMax
        next_task_priority == FindSet(k.bm)
    IN  next_task_priority < prev_task_priority

\* PrevTaskPriority that takes the running task for absent
PrevTaskPriority_Absent(k) == UsizeMax

\* choose_next_running_task: the priority of running_task
PrevTaskPriority(k) ==
    IF k.rt # None
    THEN IF k.st[k.rt] = "Running" THEN priority[k.rt] ELSE UsizeMax
    ELSE UsizeMax

\* KeepRunning that never keeps the running task: every dispatch switches
KeepRunning_Never(prev_task_priority, next_task_priority) == FALSE

\* KeepRunning with a strict comparison: a task of equal priority takes over
KeepRunning_Strict(prev_task_priority, next_task_priority) ==
    prev_task_priority < next_task_priority

\* KeepRunning that returns early only for a running task in the Running
\* state: with the running task Waiting and nothing Ready it goes on
KeepRunning_OnlyRunning(prev_task_priority, next_task_priority) ==
    prev_task_priority < UsizeMax /\ prev_task_priority <= next_task_priority

\* choose_next_running_task: "return if there's no task willing to take over
\* the current one"
KeepRunning(prev_task_priority, next_task_priority) ==
    prev_task_priority <= next_task_priority

\* TakeNext that clears the bit of the bucket although tasks remain in it
TakeNext_AlwaysClears(k, next_task_priority) ==
    LET task == Head(k.q[next_task_priority])
        rest == Tail(k.q[next_task_priority])
    IN  [k |-> [k EXCEPT !.q[next_task_priority] = rest,
                         !.bm = k.bm \ {next_task_priority},
                         !.st[task] = "Running"],
         task |-> task]

\* TakeNext that leaves the task linked into its bucket
TakeNext_NoPop(k, next_task_priority) ==
    LET task == Head(k.q[next_task_priority])
    IN  [k |-> [k EXCEPT !.st[task] = "Running"], task |-> task]

\* TakeNext that takes the last task of the bucket
TakeNext_Last(k, next_task_priority) ==
    LET len == Len(k.q[next_task_priority])
        task == k.q[next_task_priority][len]
        rest == SubSeq(k.q[next_task_priority], 1, len - 1)
    IN  [k |-> [k EXCEPT !.q[next_task_priority] = rest,
                         !.bm = IF rest = << >> THEN k.bm \ {next_task_priority}
                                ELSE k.bm,
                         !.st[task] = "Running"],
         task |-> task]

\* choose_next_running_task: take the first task in the ready queue for
\* next_task_priority, update the bitmap, make the task Running.
\* The result is the new state and the task taken.
TakeNext(k, next_task_priority) ==
    LET task == Head(k.q[next_task_priority])
        rest == Tail(k.q[next_task_priority])
    IN  [k |-> [k EXCEPT !.q[next_task_priority] = rest,
                         !.bm = IF rest = << >> THEN k.bm \ {next_task_priority}
                                ELSE k.bm,
                         !.st[task] = "Running"],
         task |-> task]

\* RequeuePrev that forgets the preempted task: it is neither made Ready nor
\* linked
RequeuePrev_Drop(k, prev_running_task) ==
    k

\* RequeuePrev that makes the previous task Ready whatever its state
RequeuePrev_Always(k, prev_running_task) ==
    IF prev_running_task # None THEN MakeReady(k, prev_running_task) ELSE k

\* RequeuePrev that links the previous task without changing its state
RequeuePrev_NoState(k, prev_running_task) ==
    IF prev_running_task # None /\ k.st[prev_running_task] = "Running"
    THEN [k EXCEPT !.q[priority[prev_running_task]] =
                       PushBack(k.q[priority[prev_running_task]], prev_running_task),
                   !.bm = k.bm \cup {priority[prev_running_task]}]
    ELSE k

\* choose_next_running_task: "if prev_running_task is in a Running state,
\* transition it into Ready"
RequeuePrev(k, prev_running_task) ==
    IF prev_running_task # None
    THEN CASE k.st[prev_running_task] = "Running" -> MakeReady(k, prev_running_task)
           [] k.st[prev_running_task] = "Waiting" -> k
           [] OTHER -> [k EXCEPT !.panic = TRUE]   \* unreachable!()
    ELSE k

\* choose_next_running_task
ChooseNextRunningTask(k) ==
    LET prev_running_task == k.rt
        prev_task_priority == PrevTaskPriority(k)
        next_task_priority == FindSet(k.bm)
    IN  IF KeepRunning(prev_task_priority, next_task_priority) THEN k
        ELSE IF next_task_priority < NumPriorityLevels
        THEN IF k.q[next_task_priority] = << >>
             THEN [k EXCEPT !.panic = TRUE]   \* pop_front().unwrap()
             ELSE LET n == TakeNext(k, next_task_priority)
                      k2 == RequeuePrev(n.k, prev_running_task)
                  IN  IF k2.panic THEN k2 ELSE [k2 EXCEPT !.rt = n.task]
        ELSE LET k2 == RequeuePrev(k, prev_running_task)
             IN  IF k2.panic THEN k2 ELSE [k2 EXCEPT !.rt = None]

\* InitTask that links the task without initializing its context
InitTask_NoContext(k, t) ==
    IF k.st[t] = "PendingActivation"
    THEN MakeReady(k, t)
    ELSE k

\* init_task
InitTask(k, t) ==
    IF k.st[t] = "PendingActivation"
    THEN LET k1 == InitializeTaskState(k, t)
         IN  IF k1.panic THEN k1 ELSE MakeReady(k1, t)
    ELSE k

\* InitTasks that goes through the task pool from its end
RECURSIVE InitTasks_Reverse(_, _)
InitTasks_Reverse(k, i) ==
    IF i > NumTasks THEN k ELSE InitTask(InitTasks_Reverse(k, i + 1), i)

\* The loop of PortToKernel::boot over the task pool, in pool order
RECURSIVE InitTasks(_, _)
InitTasks(k, i) ==
    IF i > NumTasks THEN k ELSE InitTasks(InitTask(k, i), i + 1)

\* Assign a kernel state value to the variables
Store(k) ==
    /\ st' = k.st
    /\ task_ready_queue' = k.q
    /\ task_ready_bitmap' = k.bm
    /\ running_task' = k.rt
    /\ tsm' = k.tsm
    /\ panicked' = k.panic

\* The interrupt sources of the PLIC; source 0 stands for "no interrupt"
PlicSources == 0..MAX_NUM

\* The registers of the PLIC after reset and init: every priority and the
\* threshold of the context are 0, no source is enabled, none is pending.
\* A bit of the enable registers is the pair of its word and its place
PlicReset ==
    [interrupt_priority |-> [s \in PlicSources |-> 0],
     interrupt_enable |-> {},
     interrupt_pending |-> {},
     priority_threshold |-> 0]

NoPlicCall == [op |-> "none", line |-> 0, result |-> "none", wrote |-> FALSE]

NoPlicDone == [entry |-> 0, exit |-> 0, num |-> 0, called |-> FALSE, depth |-> 0]

\* The state after construction, for every configuration of the task pool
InitPool ==
    /\ st \in [Tasks -> {"Dormant", "PendingActivation"}]
    /\ priority \in [Tasks -> Priorities]
    /\ task_ready_queue = [p \in Priorities |-> << >>]
    /\ task_ready_bitmap = {}
    /\ running_task = None
    /\ tsm = [t \in Tasks |-> "Uninit"]
    /\ panicked = FALSE
    /\ cpu_lock = TRUE
    /\ dispatch_pended = FALSE
    /\ phase = "boot"
    /\ task_thread = None
    /\ exiting = FALSE
    /\ pc = [t \in Tasks |-> "idle"]
    /\ call = [t \in Tasks |-> NoCall]
    /\ line_enable = FALSE
    /\ line_pended = FALSE
    /\ seq = 0
    /\ first_task_started = FALSE
    /\ started = {}
    /\ late = [t \in Tasks |-> {}]
    /\ exit_with_lock = FALSE
    /\ line_priority = ManagedPriorityStart
    /\ wait_queue = << >>
    /\ waiter_priority = InitialWaiterPriority
    /\ wait_order = << >>
    /\ woken = << >>
    /\ frame = [c \in Ctx |->
                  [pc |-> IF c = BootCtx THEN "b_init" ELSE "idle",
                   target |-> IF c = BootCtx THEN 1 ELSE None,
                   yield |-> FALSE, prev |-> None, next |-> None, pri |-> 0,
                   cont |-> "none"]]
    /\ port_fault = "none"
    /\ psp = None
    /\ task_stack = [t \in Tasks |-> "null"]
    /\ handler = << >>
    /\ plic_regs = PlicReset
    /\ plic_handlers = << >>
    /\ plic_call = NoPlicCall
    /\ plic_done = NoPlicDone

Init ==
    /\ InitPool
    \* the configuration is recorded by the specification of the first
    \* dispatch only (InitBoot)
    /\ active_at_start = {}
    \* tasks differ only in their place in the pool and their priority, so
    \* the pool is listed by priority; tasks of one priority keep pool order
    /\ \A t \in Tasks : \A u \in Tasks : t < u => priority[t] <= priority[u]

\* Task t has been made Running and has neither blocked nor exited since
InEpisode(t) == t \in started

\* The history of the tasks that are made Running, until they block or exit
\* (a preempted task, made Ready by the dispatcher, stays in it), and of the
\* tasks that become Ready (by make_ready in activate or in a wake-up) while
\* a task of their priority is in it; a task leaves the latter when it is
\* made Running.  Also whether CPU Lock was active at the last call of
\* exit_task (the only step from Running to Dormant).
TrackLate ==
    /\ started' = {t \in Tasks :
                      \/ st'[t] = "Running"
                      \/ st'[t] = "Ready" /\ st[t] = "Running"
                      \/ st'[t] = "Ready" /\ st[t] = "Ready" /\ t \in started}
    /\ late' = [t \in Tasks |->
                   IF t \notin started' THEN {}
                   ELSE {u \in Tasks \ {t} :
                            /\ st'[u] = "Ready"
                            /\ \/ u \in late[t]
                               \/ /\ t \in started
                                  /\ u \notin started
                                  /\ st[u] # "Ready"
                                  /\ priority[u] = priority[t]}]
    /\ exit_with_lock' = IF \E t \in Tasks : st[t] = "Running" /\ st'[t] = "Dormant"
                         THEN cpu_lock ELSE exit_with_lock

\* Boot that drops its CPU Lock guard after the tasks have been initialized
Boot_ReleasesLock ==
    /\ phase = "boot"
    /\ ~panicked
    /\ LET k == InitTasks(KState, 1)
       IN  /\ Store(k)
           /\ phase' = IF k.panic THEN phase ELSE "hook"
    /\ cpu_lock' = FALSE
    /\ UNCHANGED <<priority, active_at_start, dispatch_pended, task_thread, exiting, pc, call>>
    /\ UNCHANGED intr
    /\ UNCHANGED first_task_started
    /\ TrackLate
    /\ UNCHANGED ext

\* PortToKernel::boot up to the startup hooks: init_task for every task of
\* the pool, under the CPU Lock that the port activated
Boot ==
    /\ phase = "boot"
    /\ ~panicked
    /\ LET k == InitTasks(KState, 1)
       IN  /\ Store(k)
           /\ phase' = IF k.panic THEN phase ELSE "hook"
    /\ UNCHANGED <<priority, active_at_start, cpu_lock, dispatch_pended, task_thread, exiting, pc, call>>
    /\ UNCHANGED intr
    /\ UNCHANGED first_task_started
    /\ TrackLate
    /\ UNCHANGED ext

\* Activate that calls yield_cpu on its error path
Activate_OverflowYields(k, task_cb) ==
    IF k.st[task_cb] # "Dormant"
    THEN [k |-> k, result |-> "QueueOverflow", yield |-> TRUE]
    ELSE LET k1 == InitializeTaskState(k, task_cb)
             k2 == IF k1.panic THEN k1 ELSE MakeReady(k1, task_cb)
         IN  [k |-> k2, result |-> "Ok", yield |-> CheckPreemption(k2)]

\* Activate without the test of the state of the task
Activate_NoStateTest(k, task_cb) ==
    LET k1 == InitializeTaskState(k, task_cb)
        k2 == IF k1.panic THEN k1 ELSE MakeReady(k1, task_cb)
    IN  [k |-> k2, result |-> "Ok", yield |-> CheckPreemption(k2)]

\* activate, up to and including the comparison of
\* unlock_cpu_and_check_preemption.  The result is the new state, the
\* value returned to the caller and whether yield_cpu is to be called.
Activate(k, task_cb) ==
    IF k.st[task_cb] # "Dormant"
    THEN [k |-> k, result |-> "QueueOverflow", yield |-> FALSE]
    ELSE LET k1 == InitializeTaskState(k, task_cb)
             k2 == IF k1.panic THEN k1 ELSE MakeReady(k1, task_cb)
         IN  [k |-> k2, result |-> "Ok", yield |-> CheckPreemption(k2)]

\* The wake-up of a waiting task by a synchronization object: make_ready, then
\* the comparison of unlock_cpu_and_check_preemption.
WakeUp(k, task_cb) ==
    LET k1 == MakeReady(k, task_cb)
    IN  [k |-> k1, result |-> "Ok", yield |-> CheckPreemption(k1)]

\* The set of handles a caller can present: those of the tasks of the pool
\* and one whose id lies beyond it
Ids == 1..(NumTasks + 1)

\* TryEnterCpuLock that reports success also when CPU Lock was active
TryEnterCpuLock_AlwaysEntered(lock_active) ==
    [lock |-> TRUE, entered |-> TRUE]

\* PortThreading::try_enter_cpu_lock: activate CPU Lock, "return true iff CPU
\* Lock was inactive before the call"
TryEnterCpuLock(lock_active) ==
    IF lock_active
    THEN [lock |-> lock_active, entered |-> FALSE]
    ELSE [lock |-> TRUE, entered |-> TRUE]

\* ReleaseCpuLock that reports Ok without deactivating CPU Lock
ReleaseCpuLock_NoLeave(lock_active) ==
    IF ~lock_active
    THEN [lock |-> lock_active, result |-> "BadContext"]
    ELSE [lock |-> lock_active, result |-> "Ok"]

\* Kernel::release_cpu_lock
ReleaseCpuLock(lock_active) ==
    IF ~lock_active
    THEN [lock |-> lock_active, result |-> "BadContext"]
    ELSE [lock |-> FALSE, result |-> "Ok"]

\* Kernel::has_cpu_lock
HasCpuLock == cpu_lock

\* The application's interrupt line can be taken: it is enabled and pended
\* and CPU Lock, which masks it, is inactive
LineDeliverable == line_enable /\ line_pended /\ ~cpu_lock

\* The dispatcher's line can be taken: the task thread does not execute
\* before its handler has run.
DispatchDeliverable == dispatch_pended /\ ~cpu_lock

\* The thread of task t is the one executing
Executing(t) ==
    /\ phase = "run"
    /\ ~panicked
    /\ ~exiting
    /\ task_thread = t
    /\ ~DispatchDeliverable
    /\ ~LineDeliverable

\* TaskActivateCall that releases the CPU Lock it failed to take
TaskActivateCall_DropsLock(k, lock_active, id) ==
    IF lock_active
    THEN [k |-> k, result |-> "BadContext", yield |-> FALSE, lock |-> FALSE]
    ELSE IF id \notin Tasks
    THEN [k |-> k, result |-> "BadId", yield |-> FALSE, lock |-> FALSE]
    ELSE Activate(k, id) @@ [lock |-> FALSE]

\* TaskActivateCall that returns BadId with CPU Lock still active
TaskActivateCall_LockKept(k, lock_active, id) ==
    IF lock_active
    THEN [k |-> k, result |-> "BadContext", yield |-> FALSE, lock |-> lock_active]
    ELSE IF id \notin Tasks
    THEN [k |-> k, result |-> "BadId", yield |-> FALSE, lock |-> TRUE]
    ELSE Activate(k, id) @@ [lock |-> FALSE]

\* Task::activate: lock_cpu (BadContext when CPU Lock is active), task_cb
\* (BadId when id - 1 is not an index of the task pool; the guard is dropped
\* on return), then activate.  lock is the state of CPU Lock after the call.
TaskActivateCall(k, lock_active, id) ==
    IF lock_active
    THEN [k |-> k, result |-> "BadContext", yield |-> FALSE, lock |-> lock_active]
    ELSE IF id \notin Tasks
    THEN [k |-> k, result |-> "BadId", yield |-> FALSE, lock |-> FALSE]
    ELSE Activate(k, id) @@ [lock |-> FALSE]

\* KernelCfg2::task_cb_pool: the control block at every index of the pool
TaskCbPool == [i \in 0..(NumTasks - 1) |-> i + 1]

\* KernelCfg2::get_task_cb: task_cb_pool().get(i), None beyond the pool
GetTaskCb(i) == IF i \in DOMAIN TaskCbPool THEN TaskCbPool[i] ELSE None

\* Task::task_cb: the control block that the handle of id stands for (None
\* for BadId)
TaskCbOfId(id) == GetTaskCb(id - 1)

\* wrapping_offset_from(task_cb_pool().as_ptr()): the index of a control
\* block in the pool
OffsetFromPool(task_cb) == CHOOSE i \in DOMAIN TaskCbPool : TaskCbPool[i] = task_cb

\* Current that takes the offset in the pool for the id
Current_OffsetAsId(k, lock_active) ==
    IF lock_active THEN [result |-> "BadContext", id |-> None]
    ELSE IF k.rt = None THEN [result |-> "Ok", id |-> None]
    ELSE [result |-> "Ok", id |-> OffsetFromPool(k.rt)]

\* Task::current: lock_cpu (BadContext when CPU Lock is active), Ok(None)
\* when there is no running task, else the handle whose id is the offset of
\* running_task in the pool plus one.  id = None stands for Ok(None).
Current(k, lock_active) ==
    IF lock_active THEN [result |-> "BadContext", id |-> None]
    ELSE IF k.rt = None THEN [result |-> "Ok", id |-> None]
    ELSE [result |-> "Ok", id |-> OffsetFromPool(k.rt) + 1]

\* SeqTracker::expect_and_replace: the tracker holds old and gets new, or the
\* test fails
ExpectAndReplace(old, new) ==
    /\ seq' = IF seq = old THEN new ELSE seq
    /\ panicked' = (seq # old)

\* The startup hook is entered (boot still holds CPU Lock): the tracker goes
\* from 0 to 1, has_cpu_lock is asserted, the interrupt line is enabled and
\* pended
StartupHookEnter ==
    /\ phase = "hook"
    /\ ~panicked
    /\ IF ~HasCpuLock
       THEN panicked' = TRUE /\ UNCHANGED <<seq, line_enable, line_pended, phase>>
       ELSE /\ ExpectAndReplace(0, 1)
            /\ line_enable' = TRUE
            /\ line_pended' = TRUE
            /\ phase' = "in_hook"
    /\ UNCHANGED <<st, priority, active_at_start, task_ready_queue, task_ready_bitmap, running_task,
                   tsm, cpu_lock, dispatch_pended, task_thread, exiting, pc, call>>
    /\ UNCHANGED first_task_started
    /\ TrackLate
    /\ UNCHANGED ext

\* A startup hook calls Task::activate
StartupHookActivate(id) ==
    /\ phase = "in_hook"
    /\ ~panicked
    /\ LET r == TaskActivateCall(KState, cpu_lock, id)
       IN  /\ Store(r.k)
           /\ cpu_lock' = r.lock
           /\ dispatch_pended' = (dispatch_pended \/ r.yield)
    /\ UNCHANGED <<priority, active_at_start, phase, task_thread, exiting, pc, call>>
    /\ UNCHANGED intr
    /\ UNCHANGED first_task_started
    /\ TrackLate
    /\ UNCHANGED ext

\* The startup hook returns: the tracker goes from 1 to 2
StartupHookExit ==
    /\ phase = "in_hook"
    /\ ~panicked
    /\ ExpectAndReplace(1, 2)
    /\ phase' = IF seq = 1 THEN "first_dispatch" ELSE phase
    /\ UNCHANGED <<st, priority, active_at_start, task_ready_queue, task_ready_bitmap, running_task,
                   tsm, cpu_lock, dispatch_pended, task_thread, exiting, pc, call,
                   line_enable, line_pended>>
    /\ UNCHANGED first_task_started
    /\ TrackLate
    /\ UNCHANGED ext

\* State::dispatch_first_task: CPU Lock is asserted active, the dispatcher's
\* line is pended, CPU Lock is released and the boot thread ends
DispatchFirstTask ==
    /\ phase = "first_dispatch"
    /\ ~panicked
    /\ IF ~cpu_lock
       THEN panicked' = TRUE /\ UNCHANGED <<cpu_lock, dispatch_pended, phase>>
       ELSE /\ dispatch_pended' = TRUE
            /\ cpu_lock' = FALSE
            /\ phase' = "run"
            /\ UNCHANGED panicked
    /\ UNCHANGED <<st, priority, active_at_start, task_ready_queue, task_ready_bitmap, running_task,
                   tsm, task_thread, exiting, pc, call>>
    /\ UNCHANGED intr
    /\ UNCHANGED first_task_started
    /\ TrackLate
    /\ UNCHANGED ext

\* The handler of the application's interrupt line (interrupt_during_boot):
\* the line is taken when it is deliverable; the tracker goes from 2 to 3
IsrLine ==
    /\ LineDeliverable
    /\ ~panicked
    /\ line_pended' = FALSE
    /\ ExpectAndReplace(2, 3)
    /\ UNCHANGED <<st, priority, active_at_start, task_ready_queue, task_ready_bitmap, running_task,
                   tsm, cpu_lock, dispatch_pended, phase, task_thread, exiting, pc,
                   call, line_enable>>
    /\ UNCHANGED first_task_started
    /\ TrackLate
    /\ UNCHANGED ext

\* Task::activate called by task t with the handle of id: the critical
\* section
TaskActivate(t, id) ==
    /\ Executing(t)
    /\ pc[t] = "user"
    /\ LET r == TaskActivateCall(KState, cpu_lock, id)
       IN  /\ Store(r.k)
           /\ cpu_lock' = r.lock
           /\ pc' = [pc EXCEPT ![t] = IF r.yield THEN "check_yield" ELSE "ret"]
           /\ call' = [call EXCEPT ![t] =
                          [op |-> "activate", target |-> id, result |-> r.result]]
    /\ UNCHANGED <<priority, active_at_start, dispatch_pended, phase, task_thread, exiting>>
    /\ UNCHANGED intr
    /\ UNCHANGED first_task_started
    /\ TrackLate
    /\ UNCHANGED ext

\* Kernel::acquire_cpu_lock called by task t
TaskAcquireCpuLock(t) ==
    /\ Executing(t)
    /\ pc[t] = "user"
    /\ cpu_lock' = TryEnterCpuLock(cpu_lock).lock
    /\ pc' = [pc EXCEPT ![t] = "ret"]
    /\ call' = [call EXCEPT ![t] =
                   [op |-> "acquire", target |-> None,
                    result |-> IF TryEnterCpuLock(cpu_lock).entered
                               THEN "Ok" ELSE "BadContext"]]
    /\ UNCHANGED <<st, priority, active_at_start, task_ready_queue, task_ready_bitmap, running_task,
                   tsm, panicked, dispatch_pended, phase, task_thread, exiting>>
    /\ UNCHANGED intr
    /\ UNCHANGED first_task_started
    /\ TrackLate
    /\ UNCHANGED ext

\* Kernel::has_cpu_lock called by task t
TaskHasCpuLock(t) ==
    /\ Executing(t)
    /\ pc[t] = "user"
    /\ pc' = [pc EXCEPT ![t] = "ret"]
    /\ call' = [call EXCEPT ![t] =
                   [op |-> "has", target |-> None,
                    result |-> IF HasCpuLock THEN "True" ELSE "False"]]
    /\ UNCHANGED <<st, priority, active_at_start, task_ready_queue, task_ready_bitmap, running_task,
                   tsm, panicked, cpu_lock, dispatch_pended, phase, task_thread,
                   exiting>>
    /\ UNCHANGED intr
    /\ UNCHANGED first_task_started
    /\ TrackLate
    /\ UNCHANGED ext

\* Task::current called by task t
TaskCurrent(t) ==
    /\ Executing(t)
    /\ pc[t] = "user"
    /\ pc' = [pc EXCEPT ![t] = "ret"]
    /\ call' = [call EXCEPT ![t] =
                   [op |-> "current", target |-> Current(KState, cpu_lock).id,
                    result |-> Current(KState, cpu_lock).result]]
    /\ UNCHANGED <<st, priority, active_at_start, task_ready_queue, task_ready_bitmap, running_task,
                   tsm, panicked, cpu_lock, dispatch_pended, phase, task_thread,
                   exiting>>
    /\ UNCHANGED intr
    /\ UNCHANGED first_task_started
    /\ TrackLate
    /\ UNCHANGED ext

\* Kernel::release_cpu_lock called by task t
TaskReleaseCpuLock(t) ==
    /\ Executing(t)
    /\ pc[t] = "user"
    /\ cpu_lock' = ReleaseCpuLock(cpu_lock).lock
    /\ pc' = [pc EXCEPT ![t] = "ret"]
    /\ call' = [call EXCEPT ![t] =
                   [op |-> "release", target |-> None,
                    result |-> ReleaseCpuLock(cpu_lock).result]]
    /\ UNCHANGED <<st, priority, active_at_start, task_ready_queue, task_ready_bitmap, running_task,
                   tsm, panicked, dispatch_pended, phase, task_thread, exiting>>
    /\ UNCHANGED intr
    /\ UNCHANGED first_task_started
    /\ TrackLate
    /\ UNCHANGED ext

\* A wake-up of the waiting task u performed by task t
TaskWakeUp(t, u) ==
    /\ Executing(t)
    /\ pc[t] = "user"
    /\ ~cpu_lock
    /\ st[u] = "Waiting"
    /\ LET r == WakeUp(KState, u)
       IN  /\ Store(r.k)
           /\ pc' = [pc EXCEPT ![t] = IF r.yield THEN "check_yield" ELSE "ret"]
           /\ call' = [call EXCEPT ![t] =
                          [op |-> "wake", target |-> u, result |-> r.result]]
    /\ UNCHANGED <<priority, active_at_start, cpu_lock, dispatch_pended, phase, task_thread, exiting>>
    /\ UNCHANGED intr
    /\ UNCHANGED first_task_started
    /\ TrackLate
    /\ UNCHANGED ext

\* TaskYield that returns without pending the dispatcher
TaskYield_NoPend(t) ==
    /\ Executing(t)
    /\ pc[t] = "check_yield"
    /\ pc' = [pc EXCEPT ![t] = "ret"]
    /\ UNCHANGED <<st, priority, active_at_start, task_ready_queue, task_ready_bitmap, running_task,
                   tsm, panicked, cpu_lock, dispatch_pended, phase, task_thread,
                   exiting, call>>
    /\ UNCHANGED intr
    /\ UNCHANGED first_task_started
    /\ TrackLate
    /\ UNCHANGED ext

\* unlock_cpu_and_check_preemption in a task: yield_cpu after CPU Lock was
\* released (simulated port: pend INTERRUPT_LINE_DISPATCH)
TaskYield(t) ==
    /\ Executing(t)
    /\ pc[t] = "check_yield"
    /\ dispatch_pended' = TRUE
    /\ pc' = [pc EXCEPT ![t] = "ret"]
    /\ UNCHANGED <<st, priority, active_at_start, task_ready_queue, task_ready_bitmap, running_task,
                   tsm, panicked, cpu_lock, phase, task_thread, exiting, call>>
    /\ UNCHANGED intr
    /\ UNCHANGED first_task_started
    /\ TrackLate
    /\ UNCHANGED ext

\* The system call returns to the code of task t
TaskReturn(t) ==
    /\ Executing(t)
    /\ pc[t] = "ret"
    /\ pc' = [pc EXCEPT ![t] = "user"]
    /\ call' = [call EXCEPT ![t] = NoCall]
    /\ UNCHANGED <<st, priority, active_at_start, task_ready_queue, task_ready_bitmap, running_task,
                   tsm, panicked, cpu_lock, dispatch_pended, phase, task_thread, exiting>>
    /\ UNCHANGED intr
    /\ UNCHANGED first_task_started
    /\ TrackLate
    /\ UNCHANGED ext

\* wait_until_woken_up called in task t, up to the first leave_cpu_lock
TaskWait(t) ==
    /\ Executing(t)
    /\ pc[t] = "user"
    /\ ~cpu_lock
    /\ IF running_task = None \/ st[running_task] # "Running"
       THEN /\ panicked' = TRUE       \* unwrap(), assert_eq!
            /\ UNCHANGED <<st, pc, call>>
       ELSE /\ st' = [st EXCEPT ![running_task] = "Waiting"]
            /\ pc' = [pc EXCEPT ![t] = "wait_left"]
            /\ call' = [call EXCEPT ![t] =
                           [op |-> "wait", target |-> running_task, result |-> "none"]]
            /\ UNCHANGED panicked
    /\ UNCHANGED <<priority, active_at_start, task_ready_queue, task_ready_bitmap, running_task, tsm,
                   cpu_lock, dispatch_pended, phase, task_thread, exiting>>
    /\ UNCHANGED intr
    /\ UNCHANGED first_task_started
    /\ TrackLate
    /\ UNCHANGED ext

\* wait_until_woken_up: yield_cpu
WaitYield(t) ==
    /\ Executing(t)
    /\ pc[t] = "wait_left"
    /\ dispatch_pended' = TRUE
    /\ pc' = [pc EXCEPT ![t] = "wait_yielded"]
    /\ UNCHANGED <<st, priority, active_at_start, task_ready_queue, task_ready_bitmap, running_task,
                   tsm, panicked, cpu_lock, phase, task_thread, exiting, call>>
    /\ UNCHANGED intr
    /\ UNCHANGED first_task_started
    /\ TrackLate
    /\ UNCHANGED ext

\* wait_until_woken_up: enter_cpu_lock, test the state; either leave the loop
\* (the caller then releases CPU Lock and returns) or leave_cpu_lock again
WaitRecheck(t) ==
    /\ Executing(t)
    /\ pc[t] = "wait_yielded"
    /\ ~cpu_lock
    /\ IF st[call[t].target] = "Running"
       THEN /\ pc' = [pc EXCEPT ![t] = "ret"]
            /\ call' = [call EXCEPT ![t].result = "Ok"]
       ELSE /\ pc' = [pc EXCEPT ![t] = "wait_left"]
            /\ UNCHANGED call
    /\ UNCHANGED <<st, priority, active_at_start, task_ready_queue, task_ready_bitmap, running_task,
                   tsm, panicked, cpu_lock, dispatch_pended, phase, task_thread, exiting>>
    /\ UNCHANGED intr
    /\ UNCHANGED first_task_started
    /\ TrackLate
    /\ UNCHANGED ext

\* ExitCurrentTask that does not erase running_task
ExitCurrentTask_KeepsRunningTask(k) ==
    IF k.rt = None THEN [k EXCEPT !.panic = TRUE]
    ELSE IF k.st[k.rt] # "Running" THEN [k EXCEPT !.panic = TRUE]
    ELSE [k EXCEPT !.st[k.rt] = "Dormant"]

\* ExitCurrentTask that erases running_task but leaves the task Running
ExitCurrentTask_StaysRunning(k) ==
    IF k.rt = None THEN [k EXCEPT !.panic = TRUE]
    ELSE IF k.st[k.rt] # "Running" THEN [k EXCEPT !.panic = TRUE]
    ELSE [k EXCEPT !.rt = None]

\* exit_current_task: "transition the current task to Dormant", "erase
\* running_task"
ExitCurrentTask(k) ==
    IF k.rt = None THEN [k EXCEPT !.panic = TRUE]                  \* unwrap()
    ELSE IF k.st[k.rt] # "Running" THEN [k EXCEPT !.panic = TRUE]  \* assert_eq!
    ELSE [k EXCEPT !.st[k.rt] = "Dormant", !.rt = None]

\* TaskExit that leaves CPU Lock as exit_task found it
TaskExit_KeepsLock(t) ==
    /\ Executing(t)
    /\ pc[t] = "user"
    /\ LET k == ExitCurrentTask(KState)
       IN  IF k.panic \/ tsm[t] # "Running"
           THEN /\ Store([k EXCEPT !.panic = TRUE])
                /\ UNCHANGED <<exiting, pc, task_thread>>
           ELSE /\ Store([k EXCEPT !.tsm[t] = "Uninit"])
                /\ exiting' = TRUE
                /\ pc' = [pc EXCEPT ![t] = "idle"]
                /\ task_thread' = None
    /\ UNCHANGED <<priority, active_at_start, cpu_lock, dispatch_pended, phase, call>>
    /\ UNCHANGED intr
    /\ UNCHANGED first_task_started
    /\ TrackLate
    /\ UNCHANGED ext

\* exit_current_task called in task t, and exit_and_dispatch of the simulated
\* port up to the release of the scheduler lock
TaskExit(t) ==
    /\ Executing(t)
    /\ pc[t] = "user"
    /\ LET k == ExitCurrentTask(KState)
       IN  IF k.panic \/ tsm[t] # "Running"
           THEN /\ Store([k EXCEPT !.panic = TRUE])   \* assert_current_thread
                /\ UNCHANGED <<cpu_lock, exiting, pc, task_thread>>
           ELSE /\ Store([k EXCEPT !.tsm[t] = "Uninit"])
                /\ cpu_lock' = FALSE
                /\ exiting' = TRUE
                /\ pc' = [pc EXCEPT ![t] = "idle"]
                /\ task_thread' = None
    /\ UNCHANGED <<priority, active_at_start, dispatch_pended, phase, call>>
    /\ UNCHANGED intr
    /\ UNCHANGED first_task_started
    /\ TrackLate
    /\ UNCHANGED ext

\* TaskState::exit_and_dispatch: the recycled thread calls yield_cpu and ends
ExitYield ==
    /\ phase = "run"
    /\ ~panicked
    /\ exiting
    /\ ~cpu_lock
    /\ dispatch_pended' = TRUE
    /\ exiting' = FALSE
    /\ UNCHANGED <<st, priority, active_at_start, task_ready_queue, task_ready_bitmap, running_task,
                   tsm, panicked, cpu_lock, phase, task_thread, pc, call>>
    /\ UNCHANGED intr
    /\ UNCHANGED first_task_started
    /\ TrackLate
    /\ UNCHANGED ext

\* State::dispatch, the handler of INTERRUPT_LINE_DISPATCH:
\* choose_running_task under CPU Lock, then the thread of running_task
\* becomes the task thread (spawned when its context is fresh)
Dispatch ==
    /\ phase = "run"
    /\ ~panicked
    /\ DispatchDeliverable
    /\ ~LineDeliverable          \* the dispatcher's line has the lowest priority
    /\ dispatch_pended' = FALSE
    /\ LET k == ChooseNextRunningTask(KState)
       IN  IF k.panic
           THEN /\ Store(k)
                /\ UNCHANGED <<task_thread, pc>>
           ELSE IF k.rt = None
           THEN /\ Store(k)
                /\ task_thread' = None
                /\ UNCHANGED pc
           ELSE CASE k.tsm[k.rt] = "Dormant" ->
                       /\ Store([k EXCEPT !.tsm[k.rt] = "Running"])
                       /\ task_thread' = k.rt
                       /\ pc' = [pc EXCEPT ![k.rt] = "user"]
                  [] k.tsm[k.rt] = "Running" ->
                       /\ Store(k)
                       /\ task_thread' = k.rt
                       /\ UNCHANGED pc
                  [] OTHER ->
                       /\ Store([k EXCEPT !.panic = TRUE])   \* unreachable!()
                       /\ UNCHANGED <<task_thread, pc>>
    /\ first_task_started' = (first_task_started \/ task_thread' # None)
    /\ TrackLate
    /\ UNCHANGED <<priority, active_at_start, cpu_lock, phase, exiting, call>>
    /\ UNCHANGED intr
    /\ UNCHANGED ext

\* A first-level interrupt handler (CPU Lock inactive at entry) that calls
\* Task::activate on task u; yield_cpu in an interrupt context pends the
\* dispatcher, which runs after the handler has returned
IsrActivate(u) ==
    /\ phase = "run"
    /\ ~panicked
    /\ ~cpu_lock
    /\ LET r == Activate(KState, u)
       IN  /\ Store(r.k)
           /\ dispatch_pended' = (dispatch_pended \/ (r.yield /\ ~r.k.panic))
    /\ UNCHANGED <<priority, active_at_start, cpu_lock, phase, task_thread, exiting, pc, call>>
    /\ UNCHANGED intr
    /\ UNCHANGED first_task_started
    /\ TrackLate
    /\ UNCHANGED ext

\* A first-level interrupt handler that wakes up the waiting task u
IsrWakeUp(u) ==
    /\ phase = "run"
    /\ ~panicked
    /\ ~cpu_lock
    /\ st[u] = "Waiting"
    /\ LET r == WakeUp(KState, u)
       IN  /\ Store(r.k)
           /\ dispatch_pended' = (dispatch_pended \/ r.yield)
    /\ UNCHANGED <<priority, active_at_start, cpu_lock, phase, task_thread, exiting, pc, call>>
    /\ UNCHANGED intr
    /\ UNCHANGED first_task_started
    /\ TrackLate
    /\ UNCHANGED ext

\* A first-level interrupt handler that calls exit_task: exit_current_task
\* does not test the context ("TODO: Deny interrupt context"), activates CPU
\* Lock and changes the interrupted task; State::exit_and_dispatch then
\* fails its assertion of ThreadRole::Task
IsrExit ==
    /\ phase = "run"
    /\ ~panicked
    /\ ~cpu_lock
    /\ Store([ExitCurrentTask(KState) EXCEPT !.panic = TRUE])
    /\ cpu_lock' = TRUE
    /\ UNCHANGED <<priority, active_at_start, dispatch_pended, phase, task_thread, exiting, pc, call>>
    /\ UNCHANGED intr
    /\ UNCHANGED first_task_started
    /\ TrackLate
    /\ UNCHANGED ext

Next ==
    \/ Boot
    \/ StartupHookEnter
    \/ \E id \in Ids : StartupHookActivate(id)
    \/ StartupHookExit
    \/ DispatchFirstTask
    \/ IsrLine
    \/ Dispatch
    \/ ExitYield
    \/ \E t \in Tasks : \E id \in Ids : TaskActivate(t, id)
    \/ \E t \in Tasks : TaskAcquireCpuLock(t)
    \/ \E t \in Tasks : TaskReleaseCpuLock(t)
    \/ \E t \in Tasks : TaskHasCpuLock(t)
    \/ \E t \in Tasks : TaskCurrent(t)
    \/ \E t \in Tasks : \E u \in Tasks : TaskWakeUp(t, u)
    \/ \E t \in Tasks : TaskYield(t)
    \/ \E t \in Tasks : TaskReturn(t)
    \/ \E t \in Tasks : TaskWait(t)
    \/ \E t \in Tasks : WaitYield(t)
    \/ \E t \in Tasks : WaitRecheck(t)
    \/ \E t \in Tasks : TaskExit(t)
    \/ \E u \in Tasks : IsrActivate(u)
    \/ \E u \in Tasks : IsrWakeUp(u)
    \/ IsrExit

Spec == Init /\ [][Next]_vars

\* ---- the operations on an interrupt line ----------------------------------
\* The application's interrupt line as the port keeps it (sched: enable,
\* pended, priority)
LineSt == [enable |-> line_enable, pended |-> line_pended, priority |-> line_priority]

\* Assign a line value to the variables
StoreLine(l) ==
    /\ line_enable' = l.enable
    /\ line_pended' = l.pended
    /\ line_priority' = l.priority

ManagedInterruptPriorityRange == ManagedPriorityStart..(ManagedPriorityEnd - 1)

\* The priorities that the callers of set_priority present
PriorityInputs == (ManagedPriorityStart - 1)..ManagedPriorityEnd

\* SetInterruptLinePriority that does not store the priority
SetInterruptLinePriority_NotStored(l, pri) == l

\* State::set_interrupt_line_priority
SetInterruptLinePriority(l, pri) == [l EXCEPT !.priority = pri]

\* State::enable_interrupt_line
EnableInterruptLine(l) == [l EXCEPT !.enable = TRUE]

\* State::disable_interrupt_line
DisableInterruptLine(l) == [l EXCEPT !.enable = FALSE]

\* PendInterruptLine that leaves the pending flag as it is
PendInterruptLine_NoFlag(l) == l

\* State::pend_interrupt_line
PendInterruptLine(l) == [l EXCEPT !.pended = TRUE]

\* ClearInterruptLine that leaves the pending flag as it is
ClearInterruptLine_NoClear(l) == l

\* State::clear_interrupt_line
ClearInterruptLine(l) == [l EXCEPT !.pended = FALSE]

\* State::is_interrupt_line_pending
IsInterruptLinePending(l) == l.pended

\* SetPriority without the test of the range
SetPriority_NoRangeTest(l, lock_active, task_context, pri) ==
    IF lock_active \/ ~task_context
    THEN [line |-> l, result |-> "BadContext"]
    ELSE [line |-> SetInterruptLinePriority(l, pri), result |-> "Ok"]

\* InterruptLine::set_priority: BadContext unless called in a task with CPU
\* Lock inactive, BadParam for a priority that is not managed, else the
\* port's set_interrupt_line_priority
SetPriority(l, lock_active, task_context, pri) ==
    IF lock_active \/ ~task_context
    THEN [line |-> l, result |-> "BadContext"]
    ELSE IF pri \notin ManagedInterruptPriorityRange
    THEN [line |-> l, result |-> "BadParam"]
    ELSE [line |-> SetInterruptLinePriority(l, pri), result |-> "Ok"]

LineOps == {"enable", "disable", "pend", "clear", "is_pending", "set_priority"}

\* A method of InterruptLine called with CPU Lock in state lock_active, in a
\* task (task_context) or in a startup hook: the line after the call and the
\* value returned
LineCall(l, op, lock_active, task_context, pri) ==
    CASE op = "enable"  -> [line |-> EnableInterruptLine(l), result |-> "Ok"]
      [] op = "disable" -> [line |-> DisableInterruptLine(l), result |-> "Ok"]
      [] op = "pend"    -> [line |-> PendInterruptLine(l), result |-> "Ok"]
      [] op = "clear"   -> [line |-> ClearInterruptLine(l), result |-> "Ok"]
      [] op = "is_pending" ->
            [line |-> l,
             result |-> IF IsInterruptLinePending(l) THEN "True" ELSE "False"]
      [] OTHER -> SetPriority(l, lock_active, task_context, pri)

\* A startup hook calls a method of the interrupt line (boot holds CPU Lock)
HookLineCall(op, pri) ==
    /\ phase = "hook"
    /\ ~panicked
    /\ StoreLine(LineCall(LineSt, op, cpu_lock, FALSE, pri).line)
    /\ UNCHANGED <<st, priority, active_at_start, task_ready_queue, task_ready_bitmap, running_task,
                   tsm, panicked, cpu_lock, dispatch_pended, phase, task_thread,
                   exiting, pc, call, seq>>
    /\ UNCHANGED hist
    /\ UNCHANGED wq
    /\ UNCHANGED fine
    /\ UNCHANGED ports

\* The startup hook returns
HookReturn ==
    /\ phase = "hook"
    /\ ~panicked
    /\ phase' = "first_dispatch"
    /\ UNCHANGED <<st, priority, active_at_start, task_ready_queue, task_ready_bitmap, running_task,
                   tsm, panicked, cpu_lock, dispatch_pended, task_thread, exiting,
                   pc, call>>
    /\ UNCHANGED intr
    /\ UNCHANGED hist
    /\ UNCHANGED ext

\* Task t calls a method of the interrupt line
TaskLineCall(t, op, pri) ==
    /\ Executing(t)
    /\ pc[t] = "user"
    /\ LET r == LineCall(LineSt, op, cpu_lock, TRUE, pri)
       IN  /\ StoreLine(r.line)
           /\ call' = [call EXCEPT ![t] =
                          [op |-> op,
                           target |-> IF op = "set_priority" THEN pri ELSE None,
                           result |-> r.result]]
    /\ pc' = [pc EXCEPT ![t] = "ret"]
    /\ UNCHANGED <<st, priority, active_at_start, task_ready_queue, task_ready_bitmap, running_task,
                   tsm, panicked, cpu_lock, dispatch_pended, phase, task_thread,
                   exiting, seq>>
    /\ UNCHANGED hist
    /\ UNCHANGED wq
    /\ UNCHANGED fine
    /\ UNCHANGED ports

\* The handler of the application's interrupt line (interrupt_misc): the line
\* is taken when it is deliverable; the handler is unreachable!()
IsrUnreachable ==
    /\ phase = "run"
    /\ LineDeliverable
    /\ ~panicked
    /\ line_pended' = FALSE
    /\ panicked' = TRUE
    /\ UNCHANGED <<st, priority, active_at_start, task_ready_queue, task_ready_bitmap, running_task,
                   tsm, cpu_lock, dispatch_pended, phase, task_thread, exiting, pc,
                   call, line_enable, seq>>
    /\ UNCHANGED hist
    /\ UNCHANGED ext

\* The system of the interrupt_misc test: boot, a startup hook and tasks that
\* call the methods of the interrupt line and take and release CPU Lock
NextLine ==
    \/ Boot
    \/ \E op \in LineOps : \E pri \in PriorityInputs : HookLineCall(op, pri)
    \/ HookReturn
    \/ DispatchFirstTask
    \/ Dispatch
    \/ IsrUnreachable
    \/ \E t \in Tasks : \E op \in LineOps : \E pri \in PriorityInputs :
          TaskLineCall(t, op, pri)
    \/ \E t \in Tasks : TaskAcquireCpuLock(t)
    \/ \E t \in Tasks : TaskReleaseCpuLock(t)
    \/ \E t \in Tasks : TaskReturn(t)

SpecLine == Init /\ [][NextLine]_vars

\* ---------------------------------------------------------------------------
\* The wait queue of an event group ordered by task priority
\* (event_group_reorder_task_priority.rs)

InQueue(q, w) == \E i \in 1..Len(q) : q[i] = w

RemoveWait(q, w) == SelectSeq(q, LAMBDA x : x # w)

InsertAt(q, n, w) == SubSeq(q, 1, n - 1) \o <<w>> \o SubSeq(q, n, Len(q))

\* Mutant: a new waiter goes in front of the waiters of its own priority
InsertPos_BeforeEqual(q, w, pri) ==
    LET later == {i \in 1..Len(q) : pri[q[i]] >= pri[w]}
    IN  IF later = {} THEN Len(q) + 1
        ELSE CHOOSE i \in later : \A j \in later : i <= j

\* The place of a new waiter: in front of the first waiter whose priority is
\* lower (a larger number) than its own, at the end if there is none
InsertPos(q, w, pri) ==
    LET later == {i \in 1..Len(q) : pri[q[i]] > pri[w]}
    IN  IF later = {} THEN Len(q) + 1
        ELSE CHOOSE i \in later : \A j \in later : i <= j

InsertWait(q, w, pri) == InsertAt(q, InsertPos(q, w, pri), w)

\* Mutant: a change of priority leaves the waiter where it is
ReorderWait_Stay(q, w, pri) == q

\* The waiter is taken out of the queue and inserted again with its new priority
ReorderWait(q, w, pri) == InsertWait(RemoveWait(q, w), w, pri)

\* EventGroup::wait of a task that has not waited yet
EgWait(w) ==
    /\ ~InQueue(wait_queue, w)
    /\ ~InQueue(woken, w)
    /\ wait_queue' = InsertWait(wait_queue, w, waiter_priority)
    /\ wait_order' = Append(wait_order, w)
    /\ UNCHANGED <<waiter_priority, woken>>
    /\ UNCHANGED <<st, priority, active_at_start, task_ready_queue, task_ready_bitmap, running_task,
                   tsm, panicked, cpu_lock, dispatch_pended, phase, task_thread,
                   exiting, pc, call>>
    /\ UNCHANGED intr
    /\ UNCHANGED hist
    /\ UNCHANGED line_priority
    /\ UNCHANGED fine
    /\ UNCHANGED ports

\* Task::set_priority: nothing happens when the priority stays the same; a
\* waiting task is re-positioned in its wait queue
WaiterSetPriority(w, p) ==
    /\ ~InQueue(woken, w)
    /\ waiter_priority' = [waiter_priority EXCEPT ![w] = p]
    /\ IF p = waiter_priority[w] \/ ~InQueue(wait_queue, w)
       THEN UNCHANGED <<wait_queue, wait_order>>
       ELSE /\ wait_queue' = ReorderWait(wait_queue, w, waiter_priority')
            /\ wait_order' = Append(RemoveWait(wait_order, w), w)
    /\ UNCHANGED woken
    /\ UNCHANGED <<st, priority, active_at_start, task_ready_queue, task_ready_bitmap, running_task,
                   tsm, panicked, cpu_lock, dispatch_pended, phase, task_thread,
                   exiting, pc, call>>
    /\ UNCHANGED intr
    /\ UNCHANGED hist
    /\ UNCHANGED line_priority
    /\ UNCHANGED fine
    /\ UNCHANGED ports

\* EventGroup::set: every waiter waits for the same bit and clears it, so one
\* call wakes the first waiter of the queue
EgSet ==
    /\ wait_queue # << >>
    /\ woken' = Append(woken, Head(wait_queue))
    /\ wait_queue' = Tail(wait_queue)
    /\ wait_order' = RemoveWait(wait_order, Head(wait_queue))
    /\ UNCHANGED waiter_priority
    /\ UNCHANGED <<st, priority, active_at_start, task_ready_queue, task_ready_bitmap, running_task,
                   tsm, panicked, cpu_lock, dispatch_pended, phase, task_thread,
                   exiting, pc, call>>
    /\ UNCHANGED intr
    /\ UNCHANGED hist
    /\ UNCHANGED line_priority
    /\ UNCHANGED fine
    /\ UNCHANGED ports

NextWait ==
    \/ \E w \in Waiters : EgWait(w)
    \/ \E w \in Waiters : \E p \in WaitPriorities : WaiterSetPriority(w, p)
    \/ EgSet

\* The event group's test leaves the scheduler's part of the state alone, so
\* it starts from one state of it
InitWait ==
    /\ Init
    /\ st = [t \in Tasks |-> "Dormant"]
    /\ priority = [t \in Tasks |-> 1]

SpecWait == InitWait /\ [][NextWait]_vars


\* ---------------------------------------------------------------------------
\* The kernel's functions step by step.  Every port call and every write to
\* a task's state, a ready bucket, the ready bitmap or running_task is a step
\* of its own; an interrupt handler can begin between any two steps of a task
\* or of the dispatcher whenever CPU Lock is inactive, and the dispatcher
\* whenever its line is pended, CPU Lock is inactive and no handler is active.

IdleFrame ==
    [pc |-> "idle", target |-> None, yield |-> FALSE, prev |-> None,
     next |-> None, pri |-> 0, cont |-> "none"]

UserFrame == [IdleFrame EXCEPT !.pc = "user"]

IsrActive == frame[IsrCtx].pc # "idle"

DispActive == frame[DispCtx].pc # "idle"

\* Context c is the one that executes
Runs(c) ==
    /\ ~panicked
    /\ IF c = BootCtx THEN phase = "boot"
       ELSE IF c = IsrCtx THEN IsrActive
       ELSE IF c = DispCtx THEN DispActive /\ ~IsrActive
       ELSE /\ phase = "run" /\ ~IsrActive /\ ~DispActive
            /\ \/ /\ task_thread = c /\ ~exiting /\ ~DispatchDeliverable
               \/ /\ exiting /\ frame[c].pc = "ex_yield"

At(c, l) == frame[c].pc = l /\ Runs(c)

\* The part of the state that the steps change, as a record
Cur ==
    [st |-> st, q |-> task_ready_queue, bm |-> task_ready_bitmap,
     rt |-> running_task, tsm |-> tsm, panic |-> panicked, lock |-> cpu_lock,
     dp |-> dispatch_pended, phase |-> phase, thread |-> task_thread,
     exiting |-> exiting, fault |-> port_fault]

StepTo(s) ==
    /\ st' = s.st
    /\ task_ready_queue' = s.q
    /\ task_ready_bitmap' = s.bm
    /\ running_task' = s.rt
    /\ tsm' = s.tsm
    /\ panicked' = s.panic
    /\ cpu_lock' = s.lock
    /\ dispatch_pended' = s.dp
    /\ phase' = s.phase
    /\ task_thread' = s.thread
    /\ exiting' = s.exiting
    /\ port_fault' = s.fault
    /\ UNCHANGED <<priority, active_at_start, pc, call, line_priority>>
    /\ UNCHANGED intr
    /\ UNCHANGED hist
    /\ UNCHANGED wq
    /\ UNCHANGED ports

\* A port call whose precondition is that CPU Lock is in the state need: the
\* port's assertion fails otherwise
PortCall(name, need, s) ==
    IF cpu_lock = need THEN s ELSE [Cur EXCEPT !.panic = TRUE, !.fault = name]

Goto(c, l) == frame' = [frame EXCEPT ![c].pc = l]

\* The function returns to the code of the task, or the handler returns
Return(c) == frame' = [frame EXCEPT ![c] = IF c \in Tasks THEN UserFrame ELSE IdleFrame]

\* ---- boot (PortToKernel::boot)
\* "for cb in Self::task_cb_pool() { task::init_task(lock, cb) }", then
\* dispatch_first_task
BootInitTask ==
    /\ At(BootCtx, "b_init")
    /\ StepTo(Cur)
    /\ LET i == frame[BootCtx].target
       IN  IF i \notin Tasks THEN Goto(BootCtx, "b_first")
           ELSE IF st[i] = "PendingActivation"
           THEN frame' = [frame EXCEPT ![BootCtx].pc = "b_port"]
           ELSE frame' = [frame EXCEPT ![BootCtx].target = i + 1]

\* init_task: initialize_task_state, then make_ready
BootInitializeTaskState ==
    /\ At(BootCtx, "b_port")
    /\ LET k == InitializeTaskState(KState, frame[BootCtx].target)
       IN  StepTo(PortCall("initialize_task_state", TRUE,
                           [Cur EXCEPT !.tsm = k.tsm, !.panic = k.panic]))
    /\ frame' = [frame EXCEPT ![BootCtx].pc = "mr_st", ![BootCtx].cont = "b_next"]

BootNext ==
    /\ At(BootCtx, "b_next")
    /\ StepTo(Cur)
    /\ frame' = [frame EXCEPT ![BootCtx].pc = "b_init",
                              ![BootCtx].target = frame[BootCtx].target + 1,
                              ![BootCtx].cont = "none"]

\* Port::dispatch_first_task (simulated port: releases CPU Lock and pends the
\* dispatcher)
BootDispatchFirstTask ==
    /\ At(BootCtx, "b_first")
    /\ StepTo(PortCall("dispatch_first_task", TRUE,
                       [Cur EXCEPT !.lock = FALSE, !.dp = TRUE, !.phase = "run"]))
    /\ frame' = [frame EXCEPT ![BootCtx] = IdleFrame]

\* ---- make_ready
MakeReadySetSt(c) ==
    /\ At(c, "mr_st")
    /\ StepTo([Cur EXCEPT !.st[frame[c].target] = "Ready"])
    /\ Goto(c, "mr_push")

MakeReadyPushBack(c) ==
    /\ At(c, "mr_push")
    /\ LET pri == priority[frame[c].target]
       IN  StepTo([Cur EXCEPT !.q[pri] = PushBack(task_ready_queue[pri], frame[c].target)])
    /\ Goto(c, "mr_bm")

MakeReadySetBitmap(c) ==
    /\ At(c, "mr_bm")
    /\ StepTo([Cur EXCEPT !.bm = task_ready_bitmap \cup {priority[frame[c].target]}])
    /\ frame' = [frame EXCEPT ![c].pc = frame[c].cont, ![c].cont = "none"]

\* ---- unlock_cpu_and_check_preemption
UnlockRead(c) ==
    /\ At(c, "un_read")
    /\ StepTo(Cur)
    /\ frame' = [frame EXCEPT ![c].pc = "un_drop", ![c].yield = CheckPreemption(KState)]

UnlockDrop(c) ==
    /\ At(c, "un_drop")
    /\ StepTo(PortCall("leave_cpu_lock", TRUE, [Cur EXCEPT !.lock = FALSE]))
    /\ IF frame[c].yield THEN Goto(c, "un_yield") ELSE Return(c)

UnlockYieldCpu(c) ==
    /\ At(c, "un_yield")
    /\ StepTo(PortCall("yield_cpu", FALSE, [Cur EXCEPT !.dp = TRUE]))
    /\ Return(c)

\* ---- the beginning of a call in a task, and of an interrupt handler
FineOps == {"activate", "wake", "wait", "exit", "acquire", "release"}

FirstPc(op) ==
    CASE op = "activate" -> "act_lock"
      [] op = "wake" -> "wk_lock"
      [] op = "wait" -> "wt_lock"
      [] op = "exit" -> "ex_lock"
      [] op = "acquire" -> "acquire"
      [] op = "release" -> "release"

TaskCallBegin(t, op, u) ==
    /\ t \in Tasks
    /\ At(t, "user")
    /\ op \in {"wait", "exit", "acquire", "release"} => u = None
    /\ op \in {"activate", "wake"} => u \in Tasks
    /\ StepTo(Cur)
    /\ frame' = [frame EXCEPT ![t].pc = FirstPc(op), ![t].target = u]

\* A first-level interrupt handler begins; it calls activate, a wake-up or
\* exit_task
IsrBegin(op, u) ==
    /\ phase = "run"
    /\ ~panicked
    /\ ~IsrActive
    /\ ~cpu_lock
    /\ op \in {"activate", "wake", "exit"}
    /\ StepTo(Cur)
    /\ frame' = [frame EXCEPT ![IsrCtx].pc = FirstPc(op), ![IsrCtx].target = u]

\* ---- Kernel::acquire_cpu_lock, Kernel::release_cpu_lock
AcquireCpuLockStep(t) ==
    /\ At(t, "acquire")
    /\ StepTo([Cur EXCEPT !.lock = TryEnterCpuLock(cpu_lock).lock])
    /\ Return(t)

ReleaseCpuLockStep(t) ==
    /\ At(t, "release")
    /\ StepTo(IF cpu_lock
              THEN PortCall("leave_cpu_lock", TRUE, [Cur EXCEPT !.lock = FALSE])
              ELSE Cur)
    /\ Return(t)

\* ---- Task::activate
\* lock_cpu: BadContext when CPU Lock is active
ActivateLockCpu(c) ==
    /\ At(c, "act_lock")
    /\ StepTo([Cur EXCEPT !.lock = TRUE])
    /\ IF cpu_lock THEN Return(c) ELSE Goto(c, "act_st")

\* activate: QueueOverflow unless the task is Dormant (the guard is dropped)
ActivateCheckSt(c) ==
    /\ At(c, "act_st")
    /\ IF st[frame[c].target] # "Dormant"
       THEN /\ StepTo(PortCall("leave_cpu_lock", TRUE, [Cur EXCEPT !.lock = FALSE]))
            /\ Return(c)
       ELSE /\ StepTo(Cur)
            /\ Goto(c, "act_init")

ActivateInitializeTaskState(c) ==
    /\ At(c, "act_init")
    /\ LET k == InitializeTaskState(KState, frame[c].target)
       IN  StepTo(PortCall("initialize_task_state", TRUE,
                           [Cur EXCEPT !.tsm = k.tsm, !.panic = k.panic]))
    /\ frame' = [frame EXCEPT ![c].pc = "mr_st", ![c].cont = "un_read"]

\* ---- a wake-up by a synchronization object
WakeLockCpu(c) ==
    /\ At(c, "wk_lock")
    /\ StepTo([Cur EXCEPT !.lock = TRUE])
    /\ IF cpu_lock THEN Return(c) ELSE Goto(c, "wk_st")

WakeCheckSt(c) ==
    /\ At(c, "wk_st")
    /\ IF st[frame[c].target] # "Waiting"
       THEN /\ StepTo(PortCall("leave_cpu_lock", TRUE, [Cur EXCEPT !.lock = FALSE]))
            /\ Return(c)
       ELSE /\ StepTo(Cur)
            /\ frame' = [frame EXCEPT ![c].pc = "mr_st", ![c].cont = "un_read"]

\* ---- a wait of a synchronization object: wait_until_woken_up
WaitLockCpu(t) ==
    /\ At(t, "wt_lock")
    /\ StepTo([Cur EXCEPT !.lock = TRUE])
    /\ IF cpu_lock THEN Return(t) ELSE Goto(t, "wt_st")

WaitSetWaiting(t) ==
    /\ At(t, "wt_st")
    /\ IF running_task = None \/ st[running_task] # "Running"
       THEN StepTo([Cur EXCEPT !.panic = TRUE])
       ELSE StepTo([Cur EXCEPT !.st[running_task] = "Waiting"])
    /\ frame' = [frame EXCEPT ![t].pc = "wt_leave", ![t].target = running_task]

\* Mutant: the loop calls yield_cpu without having left CPU Lock
WaitLeaveCpuLock_NoLeave(t) ==
    /\ At(t, "wt_leave")
    /\ StepTo(Cur)
    /\ Goto(t, "wt_yield")

WaitLeaveCpuLock(t) ==
    /\ At(t, "wt_leave")
    /\ StepTo(PortCall("leave_cpu_lock", TRUE, [Cur EXCEPT !.lock = FALSE]))
    /\ Goto(t, "wt_yield")

WaitYieldCpu(t) ==
    /\ At(t, "wt_yield")
    /\ StepTo(PortCall("yield_cpu", FALSE, [Cur EXCEPT !.dp = TRUE]))
    /\ Goto(t, "wt_enter")

WaitEnterCpuLock(t) ==
    /\ At(t, "wt_enter")
    /\ StepTo(PortCall("enter_cpu_lock", FALSE, [Cur EXCEPT !.lock = TRUE]))
    /\ Goto(t, "wt_check")

WaitCheckSt(t) ==
    /\ At(t, "wt_check")
    /\ StepTo(Cur)
    /\ IF st[frame[t].target] = "Running" THEN Goto(t, "wt_drop") ELSE Goto(t, "wt_leave")

\* The caller of wait_until_woken_up drops its guard and returns
WaitDropLock(t) ==
    /\ At(t, "wt_drop")
    /\ StepTo(PortCall("leave_cpu_lock", TRUE, [Cur EXCEPT !.lock = FALSE]))
    /\ Return(t)

\* ---- exit_current_task
\* Mutant: exit_current_task does not activate CPU Lock
ExitEnterCpuLock_NoEnter(c) ==
    /\ At(c, "ex_lock")
    /\ StepTo(Cur)
    /\ Goto(c, "ex_st")

\* "If CPU Lock is inactive, activate it"
ExitEnterCpuLock(c) ==
    /\ At(c, "ex_lock")
    /\ StepTo(IF ~cpu_lock
              THEN PortCall("enter_cpu_lock", FALSE, [Cur EXCEPT !.lock = TRUE])
              ELSE Cur)
    /\ Goto(c, "ex_st")

ExitSetDormant(c) ==
    /\ At(c, "ex_st")
    /\ IF running_task = None \/ st[running_task] # "Running"
       THEN StepTo([Cur EXCEPT !.panic = TRUE])
       ELSE StepTo([Cur EXCEPT !.st[running_task] = "Dormant"])
    /\ frame' = [frame EXCEPT ![c].pc = "ex_rt", ![c].target = running_task]

\* ExitEraseRunningTask that leaves running_task in place
ExitEraseRunningTask_Keeps(c) ==
    /\ At(c, "ex_rt")
    /\ StepTo(Cur)
    /\ Goto(c, "ex_port")

ExitEraseRunningTask(c) ==
    /\ At(c, "ex_rt")
    /\ StepTo([Cur EXCEPT !.rt = None])
    /\ Goto(c, "ex_port")

\* Port::exit_and_dispatch: the assertion of ThreadRole::Task fails in an
\* interrupt handler; then (simulated port) the thread is dissociated from
\* the task and CPU Lock is released
ExitAndDispatch(c) ==
    /\ At(c, "ex_port")
    /\ IF c = IsrCtx
       THEN StepTo([Cur EXCEPT !.panic = TRUE])
       ELSE StepTo(PortCall("exit_and_dispatch", TRUE,
                            [Cur EXCEPT !.tsm[frame[c].target] = "Uninit",
                                        !.lock = FALSE, !.exiting = TRUE]))
    /\ Goto(c, "ex_yield")

\* exit_and_dispatch: yield_cpu, then the thread ends
ExitYieldCpu(t) ==
    /\ At(t, "ex_yield")
    /\ StepTo(PortCall("yield_cpu", FALSE,
                       [Cur EXCEPT !.dp = TRUE, !.exiting = FALSE,
                                   !.thread = IF task_thread = t THEN None
                                              ELSE task_thread]))
    /\ frame' = [frame EXCEPT ![t] = IdleFrame]

\* ---- the dispatcher (State::dispatch) and choose_next_running_task
DispatchEnterCpuLock ==
    /\ phase = "run"
    /\ ~panicked
    /\ ~IsrActive
    /\ ~DispActive
    /\ DispatchDeliverable
    /\ StepTo(PortCall("enter_cpu_lock", FALSE, [Cur EXCEPT !.lock = TRUE, !.dp = FALSE]))
    /\ Goto(DispCtx, "cn_read")

ChooseRead ==
    /\ At(DispCtx, "cn_read")
    /\ StepTo(Cur)
    /\ LET prev_task_priority == PrevTaskPriority(KState)
           next_task_priority == FindSet(task_ready_bitmap)
       IN  frame' = [frame EXCEPT
               ![DispCtx].prev = running_task,
               ![DispCtx].pri = next_task_priority,
               ![DispCtx].pc =
                   IF KeepRunning(prev_task_priority, next_task_priority) THEN "d_leave"
                   ELSE IF next_task_priority < NumPriorityLevels THEN "cn_pop"
                   ELSE "cn_prev"]

ChoosePopFront ==
    /\ At(DispCtx, "cn_pop")
    /\ LET p == frame[DispCtx].pri
       IN  IF task_ready_queue[p] = << >>
           THEN /\ StepTo([Cur EXCEPT !.panic = TRUE])
                /\ UNCHANGED frame
           ELSE /\ StepTo([Cur EXCEPT !.q[p] = Tail(task_ready_queue[p])])
                /\ frame' = [frame EXCEPT ![DispCtx].pc = "cn_clear",
                                          ![DispCtx].next = Head(task_ready_queue[p])]

ChooseClearBitmap ==
    /\ At(DispCtx, "cn_clear")
    /\ LET p == frame[DispCtx].pri
       IN  StepTo(IF task_ready_queue[p] = << >>
                  THEN [Cur EXCEPT !.bm = task_ready_bitmap \ {p}]
                  ELSE Cur)
    /\ Goto(DispCtx, "cn_run")

ChooseSetRunning ==
    /\ At(DispCtx, "cn_run")
    /\ StepTo([Cur EXCEPT !.st[frame[DispCtx].next] = "Running"])
    /\ Goto(DispCtx, "cn_prev")

\* "If prev_running_task is in a Running state, transition it into Ready"
ChoosePrev ==
    /\ At(DispCtx, "cn_prev")
    /\ LET prev == frame[DispCtx].prev
       IN  IF prev = None \/ st[prev] = "Waiting"
           THEN /\ StepTo(Cur)
                /\ Goto(DispCtx, "cn_store")
           ELSE IF st[prev] = "Running"
           THEN /\ StepTo(Cur)
                /\ frame' = [frame EXCEPT ![DispCtx].pc = "mr_st",
                                          ![DispCtx].target = prev,
                                          ![DispCtx].cont = "cn_store"]
           ELSE /\ StepTo([Cur EXCEPT !.panic = TRUE])    \* unreachable!()
                /\ UNCHANGED frame

ChooseStore ==
    /\ At(DispCtx, "cn_store")
    /\ StepTo([Cur EXCEPT !.rt = frame[DispCtx].next])
    /\ Goto(DispCtx, "d_leave")

DispatchLeaveCpuLock ==
    /\ At(DispCtx, "d_leave")
    /\ StepTo(PortCall("leave_cpu_lock", TRUE, [Cur EXCEPT !.lock = FALSE]))
    /\ frame' = [frame EXCEPT ![DispCtx] = [IdleFrame EXCEPT !.pc = "d_thread"]]

\* "Tell the scheduler which task to run next"
DispatchSetThread ==
    /\ At(DispCtx, "d_thread")
    /\ IF running_task = None
       THEN /\ StepTo([Cur EXCEPT !.thread = None])
            /\ frame' = [frame EXCEPT ![DispCtx] = IdleFrame]
       ELSE CASE tsm[running_task] = "Dormant" ->
                   /\ StepTo([Cur EXCEPT !.tsm[running_task] = "Running",
                                         !.thread = running_task])
                   /\ frame' = [frame EXCEPT ![DispCtx] = IdleFrame,
                                             ![running_task] = UserFrame]
              [] tsm[running_task] = "Running" ->
                   /\ StepTo([Cur EXCEPT !.thread = running_task])
                   /\ frame' = [frame EXCEPT ![DispCtx] = IdleFrame]
              [] OTHER ->
                   /\ StepTo([Cur EXCEPT !.panic = TRUE])     \* unreachable!()
                   /\ UNCHANGED frame

NextSteps ==
    \/ BootInitTask
    \/ BootInitializeTaskState
    \/ BootNext
    \/ BootDispatchFirstTask
    \/ \E c \in Ctx : MakeReadySetSt(c)
    \/ \E c \in Ctx : MakeReadyPushBack(c)
    \/ \E c \in Ctx : MakeReadySetBitmap(c)
    \/ \E c \in Ctx : UnlockRead(c)
    \/ \E c \in Ctx : UnlockDrop(c)
    \/ \E c \in Ctx : UnlockYieldCpu(c)
    \/ \E t \in Tasks : \E op \in FineOps : \E u \in Tasks \cup {None} : TaskCallBegin(t, op, u)
    \/ \E op \in FineOps : \E u \in Tasks : IsrBegin(op, u)
    \/ \E t \in Tasks : AcquireCpuLockStep(t)
    \/ \E t \in Tasks : ReleaseCpuLockStep(t)
    \/ \E c \in Ctx : ActivateLockCpu(c)
    \/ \E c \in Ctx : ActivateCheckSt(c)
    \/ \E c \in Ctx : ActivateInitializeTaskState(c)
    \/ \E c \in Ctx : WakeLockCpu(c)
    \/ \E c \in Ctx : WakeCheckSt(c)
    \/ \E t \in Tasks : WaitLockCpu(t)
    \/ \E t \in Tasks : WaitSetWaiting(t)
    \/ \E t \in Tasks : WaitLeaveCpuLock(t)
    \/ \E t \in Tasks : WaitYieldCpu(t)
    \/ \E t \in Tasks : WaitEnterCpuLock(t)
    \/ \E t \in Tasks : WaitCheckSt(t)
    \/ \E t \in Tasks : WaitDropLock(t)
    \/ \E c \in Ctx : ExitEnterCpuLock(c)
    \/ \E c \in Ctx : ExitSetDormant(c)
    \/ \E c \in Ctx : ExitEraseRunningTask(c)
    \/ \E c \in Ctx : ExitAndDispatch(c)
    \/ \E t \in Tasks : ExitYieldCpu(t)
    \/ DispatchEnterCpuLock
    \/ ChooseRead
    \/ ChoosePopFront
    \/ ChooseClearBitmap
    \/ ChooseSetRunning
    \/ ChoosePrev
    \/ ChooseStore
    \/ DispatchLeaveCpuLock
    \/ DispatchSetThread

SpecSteps == Init /\ [][NextSteps]_vars


TypeOK ==
    /\ st \in [Tasks -> TaskSt]
    /\ priority \in [Tasks -> Priorities]
    /\ active_at_start \subseteq Tasks
    /\ task_ready_bitmap \subseteq Priorities
    /\ running_task \in Tasks \cup {None}
    /\ tsm \in [Tasks -> Tsm]
    /\ task_thread \in Tasks \cup {None}
    /\ pc \in [Tasks -> {"idle", "user", "check_yield", "ret", "wait_left", "wait_yielded"}]
    /\ phase \in {"boot", "hook", "in_hook", "first_dispatch", "run"}
    /\ \A t \in Tasks :
          /\ call[t].op \in {"none", "activate", "wake", "wait", "acquire", "release", "has",
                            "current"} \cup LineOps
          /\ call[t].target \in Ids \cup {None} \cup PriorityInputs
          /\ call[t].result \in {"none", "Ok", "QueueOverflow", "BadId", "BadContext",
                                 "BadParam", "True", "False"}
    /\ cpu_lock \in BOOLEAN /\ dispatch_pended \in BOOLEAN
    /\ line_enable \in BOOLEAN /\ line_pended \in BOOLEAN
    /\ seq \in 0..3
    /\ first_task_started \in BOOLEAN
    /\ started \in SUBSET Tasks
    /\ late \in [Tasks -> SUBSET Tasks]
    /\ exit_with_lock \in BOOLEAN
    /\ line_priority \in ManagedPriorityStart..(ManagedPriorityEnd - 1)
    /\ wait_queue \in Seq(Waiters)
    /\ waiter_priority \in [Waiters -> WaitPriorities]
    /\ wait_order \in Seq(Waiters)
    /\ woken \in Seq(Waiters)


\* ---- properties ----------------------------------------------------------

\* Task t is linked into some ready bucket
InBucket(t) == \E p \in Priorities : t \in SeqToSet(task_ready_queue[p])

\* The number of places at which task t occurs in the ready buckets
Occurrences(t) ==
    Cardinality({<<p, i>> \in Priorities \X (1..NumTasks + 1) :
                    i <= Len(task_ready_queue[p]) /\ task_ready_queue[p][i] = t})

\* A step of the dispatcher in which choose_next_running_task returned
DispatchReturned == Dispatch /\ ~panicked'

\* C1: immediately after every call of choose_next_running_task (that
\* returns), running_task is None or no Ready task has a priority numerically
\* lower than the priority of running_task.
C1_Post ==
    \/ running_task = None
    \/ \A t \in Tasks : st[t] = "Ready" => priority[t] >= priority[running_task]

C1_AfterChooseNoHigherReady == [][DispatchReturned => C1_Post']_vars

\* The dispatcher has switched to a task and left a task of lower priority Ready.
C1_Witness ==
    /\ phase = "run" /\ ~dispatch_pended /\ ~panicked
    /\ running_task # None /\ task_thread = running_task
    /\ st[running_task] = "Running"
    /\ \E t \in Tasks : st[t] = "Ready" /\ priority[t] > priority[running_task]


\* C3 as stated: in every reachable state, if running_task = Some(t) then t is
\* Running and t is not linked into any ready bucket.
C3_RunningTaskIsRunning ==
    running_task # None =>
        st[running_task] = "Running" /\ ~InBucket(running_task)

\* C3 as amended: if running_task = Some(t) then t is Running, Waiting or
\* Ready, never Dormant or PendingActivation, and t is linked into a ready
\* bucket only when it is Ready.
C3_RunningTaskState ==
    running_task # None =>
        /\ st[running_task] \in {"Running", "Waiting", "Ready"}
        /\ st[running_task] # "Ready" => ~InBucket(running_task)

\* running_task is a task that waits, and one that an interrupt handler has
\* woken up while it was still recorded in running_task.
C3_Witness ==
    /\ running_task # None
    /\ st[running_task] = "Ready"
    /\ InBucket(running_task)
    /\ pc[running_task] \in {"wait_left", "wait_yielded"}

\* C4: for every priority p, bit p of task_ready_bitmap is set iff ready
\* bucket p is non-empty.
C4_BitmapMatchesBuckets ==
    \A p \in Priorities : p \in task_ready_bitmap <=> task_ready_queue[p] # << >>

\* One bucket holds tasks while another is empty, after the dispatcher has
\* taken a task out of a bucket.
C4_Witness ==
    /\ phase = "run" /\ running_task # None
    /\ \E p \in Priorities : task_ready_queue[p] # << >>
    /\ \E p \in Priorities : task_ready_queue[p] = << >>

\* C5: every task whose state is Ready is a member of the ready bucket indexed
\* by its own priority.
C5_ReadyIsInOwnBucket ==
    \A t \in Tasks : st[t] = "Ready" => t \in SeqToSet(task_ready_queue[priority[t]])

\* Ready tasks of two different priorities exist.
C5_Witness ==
    \E t \in Tasks : \E u \in Tasks :
        st[t] = "Ready" /\ st[u] = "Ready" /\ priority[t] # priority[u]

\* C6: every task that is a member of a ready bucket has state Ready.
C6_BucketMemberIsReady ==
    \A t \in Tasks : InBucket(t) => st[t] = "Ready"

\* A bucket holds a task while other tasks are Running, Waiting and Dormant.
C6_Witness ==
    /\ \E t \in Tasks : InBucket(t)
    /\ \E t \in Tasks : st[t] = "Running"
    /\ \E t \in Tasks : st[t] = "Waiting"

\* C7: each task appears at most once across all ready buckets.
C7_AtMostOnceInBuckets ==
    \A t \in Tasks : Occurrences(t) <= 1

\* A task that was preempted, or woken up, is linked into a bucket again
\* together with another task.
C7_Witness ==
    /\ \E p \in Priorities : Len(task_ready_queue[p]) >= 2
    /\ \E t \in Tasks : InBucket(t) /\ pc[t] # "idle"


\* Task a is inside a successful activate call on a task b of strictly higher
\* priority (it has not yet returned to its caller)
ActivatedMoreUrgent(a, b) ==
    /\ pc[a] \in {"check_yield", "ret"}
    /\ call[a].op = "activate" /\ call[a].result = "Ok"
    /\ call[a].target = b
    /\ priority[b] < priority[a]

\* Preemption on activate, the call: a running task a that activates a Dormant
\* task b of strictly higher priority gets Ok and asks for a dispatch
PreemptionRequested ==
    \A a \in Tasks : \A b \in Tasks :
        ( /\ TaskActivate(a, b)
          /\ ~cpu_lock
          /\ st[b] = "Dormant" /\ priority[b] < priority[a]
          /\ ~panicked' )
        => /\ call'[a].result = "Ok"
           /\ pc'[a] = "check_yield"
           /\ st'[b] = "Ready"

\* Preemption on activate, the order: when the activate call of a returns to
\* the code of a, the thread of b has been started (its context is no longer
\* the fresh one that initialize_task_state left)
StartedBeforeReturn ==
    \A a \in Tasks : \A b \in Tasks :
        ( /\ ActivatedMoreUrgent(a, b)
          /\ TaskReturn(a) )
        => /\ tsm[b] # "Dormant"
           /\ st[b] # "Ready"

\* Task b, activated by a, has exited, the dispatch that follows has been made,
\* no task but a that is a rival of a is Ready or Running, and a task executes
\* application code or the activate call of a
ResumeCondition(a, b, IsRival(_)) ==
    /\ phase = "run" /\ ~panicked /\ ~exiting /\ ~dispatch_pended /\ ~cpu_lock
    /\ ActivatedMoreUrgent(a, b)
    /\ st[b] = "Dormant" /\ tsm[b] = "Uninit"
    /\ \A v \in Tasks \ {a} : IsRival(v) => st[v] \notin {"Ready", "Running"}
    /\ task_thread # None
    /\ task_thread # a => pc[task_thread] = "user"

\* Task a has resumed: it is the running task and its thread executes
Resumed(a) ==
    /\ task_thread = a
    /\ running_task = a
    /\ st[a] = "Running"

\* Resumption as stated: once b has exited and no other task of priority
\* higher than a is Ready, a resumes
ResumesUnlessMoreUrgent ==
    \A a \in Tasks : \A b \in Tasks :
        LET IsRival(v) == priority[v] < priority[a]
        IN  ResumeCondition(a, b, IsRival) => Resumed(a)

\* Resumption as amended: once b has exited and no other task of priority
\* higher than or equal to a is Ready, a resumes
ResumesUnlessRival ==
    \A a \in Tasks : \A b \in Tasks :
        LET IsRival(v) == priority[v] <= priority[a]
        IN  ResumeCondition(a, b, IsRival) => Resumed(a)

\* C2 as stated: preemption on activate.  When a running task A (task context,
\* CPU Lock inactive) activates a Dormant task B of strictly higher priority, B
\* starts running before A executes any code after the activate call; once B
\* has exited and no other task of priority higher than A is Ready, A resumes
\* and its activate call returns Ok.
C2_PreemptionOnActivate ==
    /\ [][PreemptionRequested /\ StartedBeforeReturn]_vars
    /\ []ResumesUnlessMoreUrgent

\* C2 as amended: as stated, but A resumes once B has exited and no other task
\* of priority higher than or equal to the priority of A is Ready (a task of the
\* priority of A that was Ready when A was preempted runs before A: the
\* preempted task is linked behind it).
C2_PreemptionOnActivateAmended ==
    /\ [][PreemptionRequested /\ StartedBeforeReturn]_vars
    /\ []ResumesUnlessRival

\* A has activated B of higher priority, B has run and exited, and A executes
\* again, about to return from activate.
C2_Witness ==
    \E a \in Tasks : \E b \in Tasks :
        /\ ResumeCondition(a, b, LAMBDA v : priority[v] <= priority[a])
        /\ Resumed(a)
        /\ pc[a] = "ret"

\* Every Ready task has a priority that is numerically not below the one of
\* the Running task r: at most tasks of equal priority compete with r
NoneMoreUrgent(r) ==
    \A v \in Tasks : st[v] = "Ready" => priority[v] >= priority[r]

\* In this step task u becomes Ready with the priority of the task that is
\* Running, and no Ready task is more urgent than the running one
BecomesReadyAtEqualPriority(u) ==
    /\ running_task # None /\ running_task # u
    /\ st[running_task] = "Running"
    /\ st[u] # "Ready" /\ st'[u] = "Ready"
    /\ priority[u] = priority[running_task]
    /\ NoneMoreUrgent(running_task)

\* C8: equal priority never preempts.  When a task becomes Ready with the
\* priority of the Running task, unlock_cpu_and_check_preemption requests no
\* dispatch; and the dispatcher, called while no Ready task is more urgent than
\* the Running task, changes neither running_task nor the states nor the
\* ready buckets.
C8_EqualPriorityNeverPreempts ==
    [][ /\ \A u \in Tasks :
              BecomesReadyAtEqualPriority(u) =>
                  /\ running_task' = running_task
                  /\ st'[running_task] = "Running"
                  /\ dispatch_pended' = dispatch_pended
                  /\ \A t \in Tasks : pc'[t] = "check_yield" => pc[t] = "check_yield"
                  /\ u \in SeqToSet(task_ready_queue'[priority[u]])
        /\ ( /\ Dispatch
             /\ running_task # None
             /\ st[running_task] = "Running"
             /\ NoneMoreUrgent(running_task) )
           => /\ running_task' = running_task
              /\ task_thread' = running_task
              /\ st' = st
              /\ task_ready_queue' = task_ready_queue
              /\ task_ready_bitmap' = task_ready_bitmap
      ]_vars

\* The dispatcher has been called (and has returned) while a task of the
\* priority of the Running task was Ready: the Running task still runs, the
\* other task is still linked.
C8_Witness ==
    /\ phase = "run" /\ ~dispatch_pended /\ ~panicked /\ ~exiting
    /\ running_task # None /\ st[running_task] = "Running"
    /\ task_thread = running_task /\ pc[running_task] = "user"
    /\ \E u \in Tasks : /\ u # running_task
                        /\ st[u] = "Ready"
                        /\ priority[u] = priority[running_task]
                        /\ tsm[u] = "Dormant"
                        /\ InBucket(u)
    /\ \E v \in Tasks : tsm[v] = "Uninit" /\ st[v] = "Dormant" /\ priority[v] < priority[running_task]

\* The number of tasks that this step takes from the front of bucket p (0 or
\* 1) such that the rest of the bucket is the beginning of the bucket after the
\* step; -1 when the step changes the bucket in another way
TakenFromFront(p) ==
    LET q == task_ready_queue[p]
        q2 == task_ready_queue'[p]
        Kept(d) == /\ d <= Len(q)
                   /\ Len(q2) >= Len(q) - d
                   /\ \A i \in 1..(Len(q) - d) : q2[i] = q[i + d]
    IN  IF Kept(0) THEN 0 ELSE IF Kept(1) THEN 1 ELSE -1

\* C9: FIFO within a priority.  A bucket changes only by its first task being
\* taken and by tasks being linked behind its last one; a task that enters the
\* Ready state is linked behind all tasks that were in its bucket (at boot, the
\* tasks enter in pool order); and the task that the dispatcher makes Running
\* is the first of its bucket.  So the tasks of one priority become Running in
\* the order in which they became Ready.
C9_FifoWithinPriority ==
    [][ /\ \A p \in Priorities : TakenFromFront(p) >= 0
        /\ \A b \in Tasks :
              (st[b] = "Ready" /\ st'[b] = "Running") =>
                  /\ task_ready_queue[priority[b]] # << >>
                  /\ b = Head(task_ready_queue[priority[b]])
                  /\ ~panicked' => running_task' = b
        /\ \A b \in Tasks :
              (st[b] # "Ready" /\ st'[b] = "Ready") =>
                  LET p == priority[b]
                      q2 == task_ready_queue'[p]
                  IN  \E i \in 1..Len(q2) :
                         /\ q2[i] = b
                         /\ i > Len(task_ready_queue[p]) - TakenFromFront(p)
        /\ Boot => \A p \in Priorities :
                      LET q2 == task_ready_queue'[p]
                      IN  \A i \in 1..Len(q2) : \A j \in 1..Len(q2) :
                             i < j => q2[i] < q2[j]
      ]_vars

\* The dispatcher has made the first of two tasks of one bucket Running; the
\* second, which became Ready later, is still linked and has not started.
C9_Witness ==
    /\ phase = "run" /\ ~panicked
    /\ running_task # None /\ st[running_task] = "Running"
    /\ \E u \in Tasks : /\ u # running_task
                        /\ priority[u] = priority[running_task]
                        /\ st[u] = "Ready"
                        /\ u \in SeqToSet(task_ready_queue[priority[u]])
    /\ \E p \in Priorities : Len(task_ready_queue[p]) >= 2

\* The change of the state of task t in this step is a legal transition, made
\* by the operation that the transition belongs to
LegalTransition(t) ==
    \/ /\ st[t] = "Dormant" /\ st'[t] = "Ready"
       /\ \/ IsrActivate(t)
          \/ \E c \in Tasks : TaskActivate(c, t)
    \/ /\ st[t] = "PendingActivation" /\ st'[t] = "Ready"
       /\ Boot
    \/ /\ st[t] = "Ready" /\ st'[t] = "Running"
       /\ Dispatch
    \/ /\ st[t] = "Running" /\ st'[t] = "Ready"
       /\ Dispatch
       /\ running_task = t
    \/ /\ st[t] = "Running" /\ st'[t] = "Waiting"
       /\ TaskWait(t)
    \/ /\ st[t] = "Waiting" /\ st'[t] = "Ready"
       /\ \/ IsrWakeUp(t)
          \/ \E c \in Tasks : TaskWakeUp(c, t)
    \/ /\ st[t] = "Running" /\ st'[t] = "Dormant"
       /\ TaskExit(t) \/ IsrExit

\* C10: every change of a task's state is one of the legal transitions:
\* Dormant -> Ready (activate), PendingActivation -> Ready (boot), Ready ->
\* Running (dispatcher), Running -> Ready (preempted), Running -> Waiting
\* (wait), Waiting -> Ready (wake-up), Running -> Dormant (exit_task).
C10_LegalTransitions ==
    [][ \A t \in Tasks : st'[t] # st[t] => LegalTransition(t) ]_vars

\* Tasks have been activated, dispatched, preempted, have waited, been woken
\* up and have exited: one task is Waiting, one was preempted and is Ready with
\* a live thread, one has run and is Dormant again.
C10_Witness ==
    /\ ~panicked
    /\ \E t \in Tasks : st[t] = "Waiting"
    /\ \E t \in Tasks : st[t] = "Ready" /\ tsm[t] = "Running" /\ pc[t] # "idle"
    /\ \E t \in Tasks : st[t] = "Running" /\ running_task = t

\* ---- C11 ------------------------------------------------------------------
\* Task t is inside the loop of wait_until_woken_up
InWaitLoop(t) == pc[t] \in {"wait_left", "wait_yielded"}

\* Task t, inside the wait loop, has been woken (make_ready) and no other
\* task is to run before it: it is the first of the most urgent non-empty
\* bucket and no Running task of its priority or a higher one holds the
\* processor
WokenAndNext(t) ==
    /\ InWaitLoop(t)
    /\ st[t] = "Ready"
    /\ FindSet(task_ready_bitmap) = priority[t]
    /\ task_ready_queue[priority[t]] # << >>
    /\ Head(task_ready_queue[priority[t]]) = t
    /\ \A r \in Tasks :
          (running_task = r /\ st[r] = "Running") => priority[r] > priority[t]

\* C11: wait_until_woken_up returns only when the state of the calling task
\* is Running again, and a woken task does get there: the dispatcher that
\* runs when the woken task is the next to run chooses it (it becomes
\* running_task in state Running, and the system goes on), so that the task
\* leaves the loop -- also when an interrupt handler woke it between
\* leave_cpu_lock and the dispatcher.
C11_WaitReturnsWhenWoken ==
    [][ /\ \A t \in Tasks :
              (InWaitLoop(t) /\ ~InWaitLoop(t)' /\ pc'[t] = "ret")
                  => st[t] = "Running"
        /\ \A t \in Tasks :
              (Dispatch /\ WokenAndNext(t))
                  => (~panicked' /\ running_task' = t /\ st'[t] = "Running")
      ]_vars

\* ---- C12 ------------------------------------------------------------------
\* The task that the dispatcher is to choose when there is no previous task:
\* the first of the most urgent non-empty bucket, None when all are empty
HeadOfMostUrgentBucket ==
    IF task_ready_bitmap = {}
    THEN None
    ELSE Head(task_ready_queue[FindSet(task_ready_bitmap)])

\* C12: when the Running task calls exit_task the call does not fail and
\* control never returns to the caller (its thread is gone and its context
\* discarded: the task runs again only from its entry point, spawned by the
\* dispatcher after a new activation); the task is Dormant and in no ready
\* bucket; and the dispatch that follows makes running_task the first task
\* of the most urgent non-empty bucket, or None when no task is Ready.
C12_SelfExit ==
    [][ /\ \A t \in Tasks :
              (TaskExit(t) /\ running_task = t /\ st[t] = "Running") =>
                  /\ ~panicked'
                  /\ st'[t] = "Dormant"
                  /\ ~InBucket(t)'
                  /\ running_task' = None
                  /\ pc'[t] = "idle" /\ task_thread' # t /\ tsm'[t] = "Uninit"
        /\ \A t \in Tasks :
              (pc[t] = "idle" /\ pc'[t] # "idle") =>
                  (Dispatch /\ tsm[t] = "Dormant" /\ pc'[t] = "user")
        /\ (Dispatch /\ running_task = None /\ ~panicked') =>
              running_task' = HeadOfMostUrgentBucket
      ]_vars

\* Task a activated task b, b has exited (it is Dormant again) and the
\* dispatch that followed the exit has made a the running task.
C12_Witness ==
    \E a \in Tasks : \E b \in Tasks :
        /\ a # b
        /\ call[a] = [op |-> "activate", target |-> b, result |-> "Ok"]
        /\ st[b] = "Dormant" /\ pc[b] = "idle" /\ tsm[b] = "Uninit"
        /\ running_task = a /\ st[a] = "Running" /\ task_thread = a
        /\ ~dispatch_pended /\ ~exiting

\* ---- C13 ------------------------------------------------------------------
\* The dispatcher applied to a kernel state: choose_next_running_task, then
\* the context of the chosen task is the one that runs
Dispatched(k) ==
    LET k1 == ChooseNextRunningTask(k)
    IN  IF k1.panic \/ k1.rt = None THEN k1
        ELSE IF k1.tsm[k1.rt] = "Uninit" THEN [k1 EXCEPT !.panic = TRUE]
        ELSE [k1 EXCEPT !.tsm[k1.rt] = "Running"]

\* exit_task applied to a kernel state: exit_current_task, then the context
\* of the task is discarded
Exited(k) ==
    LET k1 == ExitCurrentTask(k)
    IN  IF k1.panic THEN k1 ELSE [k1 EXCEPT !.tsm[k.rt] = "Uninit"]

\* Task b, activated in state k, is the task that the dispatcher then runs
RunsImmediately(k, b) ==
    LET k1 == Dispatched(Activate(k, b).k)
    IN  ~k1.panic /\ k1.rt = b /\ k1.st[b] = "Running"

\* The state after: activate b, dispatch, b calls exit_task, dispatch
RoundTrip(k, b) == Dispatched(Exited(Dispatched(Activate(k, b).k)))

\* b is Dormant and every other task's state, the buckets and the bitmap are
\* in k1 as they are in k0
SameButFor(k1, k0, b) ==
    /\ ~k1.panic
    /\ k1.st[b] = "Dormant"
    /\ \A t \in Tasks \ {b} : k1.st[t] = k0.st[t]
    /\ k1.q = k0.q
    /\ k1.bm = k0.bm

\* A state in which Task::activate can be called (by the executing task or by
\* an interrupt handler)
ActivateCallable ==
    /\ phase = "run" /\ ~panicked /\ ~cpu_lock /\ ~exiting
    /\ \/ \E t \in Tasks : Executing(t) /\ pc[t] = "user"
       \/ ~dispatch_pended

RunningAlone ==
    /\ running_task # None
    /\ st[running_task] = "Running"
    /\ \A p \in Priorities :
          p <= priority[running_task] => task_ready_queue[p] = << >>

SchedulerUnchanged ==
    UNCHANGED <<st, task_ready_queue, task_ready_bitmap, running_task, tsm,
                panicked, cpu_lock, dispatch_pended, task_thread>>

\* C14: Task::activate on a task that is not Dormant returns QueueOverflow
\* and changes nothing: the task states, the buckets, the bitmap and
\* running_task stay as they are, the task's context is not initialized
\* again and no yield is requested (the call goes straight to its return).
C14_ActivateNonDormant ==
    [][ /\ \A t \in Tasks : \A u \in Tasks :
              (TaskActivate(t, u) /\ ~cpu_lock /\ st[u] # "Dormant") =>
                  /\ call'[t].result = "QueueOverflow"
                  /\ SchedulerUnchanged
                  /\ pc'[t] = "ret"
        /\ \A u \in Tasks :
              (IsrActivate(u) /\ st[u] # "Dormant") => SchedulerUnchanged
      ]_vars

\* A task is about to return from an activate that found its target Waiting
C14_Witness ==
    \E t \in Tasks : \E u \in Tasks :
        /\ pc[t] = "ret"
        /\ call[t] = [op |-> "activate", target |-> u, result |-> "QueueOverflow"]
        /\ st[u] = "Waiting"

\* ---- C15 ------------------------------------------------------------------
\* C15: Task::activate (called with CPU Lock inactive) on a handle whose id
\* is outside the task pool returns BadId, and only then; it leaves the
\* whole scheduler state unchanged, requests no dispatch, and CPU Lock is
\* inactive again after the call.
C15_ActivateBadId ==
    [][ \A t \in Tasks : \A id \in Ids :
          (TaskActivate(t, id) /\ ~cpu_lock) =>
              /\ (call'[t].result = "BadId") <=> (id \notin Tasks)
              /\ id \notin Tasks =>
                    /\ SchedulerUnchanged
                    /\ ~cpu_lock'
                    /\ pc'[t] = "ret"
      ]_vars

\* A task is about to return from an activate that got BadId, while another
\* task is Ready
C15_Witness ==
    \E t \in Tasks :
        /\ pc[t] = "ret"
        /\ call[t] = [op |-> "activate", target |-> NumTasks + 1, result |-> "BadId"]
        /\ ~cpu_lock
        /\ \E u \in Tasks : st[u] = "Ready"

\* ---- C16 ------------------------------------------------------------------
\* C16: exit_task called in an interrupt handler returns Err(BadContext):
\* it does not fail, and the state of the interrupted task and running_task
\* are left unchanged.
C16_ExitInInterruptIsBadContext ==
    [][ IsrExit => (~panicked' /\ UNCHANGED <<st, running_task>>) ]_vars

\* ---- C17 ------------------------------------------------------------------
\* C17: acquire_cpu_lock returns Ok and activates CPU Lock iff CPU Lock was
\* inactive, otherwise it returns BadContext and CPU Lock stays active;
\* release_cpu_lock returns Ok and deactivates CPU Lock iff it was active,
\* otherwise it returns BadContext and CPU Lock stays inactive; the value
\* that has_cpu_lock returns to the task is the state of CPU Lock.
C17_CpuLockCalls ==
    /\ [][ \A t \in Tasks :
              /\ TaskAcquireCpuLock(t) =>
                    /\ call'[t].result = (IF cpu_lock THEN "BadContext" ELSE "Ok")
                    /\ cpu_lock'
              /\ TaskReleaseCpuLock(t) =>
                    /\ call'[t].result = (IF cpu_lock THEN "Ok" ELSE "BadContext")
                    /\ ~cpu_lock'
         ]_vars
    /\ [](\A t \in Tasks :
            (Executing(t) /\ pc[t] = "ret" /\ call[t].op = "has") =>
                (call[t].result = "True" <=> cpu_lock))

\* A task that holds CPU Lock got BadContext from a second acquire_cpu_lock
C17_Witness ==
    \E t \in Tasks :
        /\ pc[t] = "ret"
        /\ call[t].op = "acquire" /\ call[t].result = "BadContext"
        /\ cpu_lock

\* ---- C18 ------------------------------------------------------------------
\* A step that is allowed to end with another state of CPU Lock than it began
\* with: an acquire_cpu_lock or release_cpu_lock that succeeds, the end of
\* boot (dispatch_first_task) and exit_task (the lock is given up for the
\* next task)
ChangesCpuLockByDesign ==
    \/ DispatchFirstTask
    \/ \E t \in Tasks : TaskExit(t)
    \/ \E t \in Tasks : TaskAcquireCpuLock(t) /\ call'[t].result = "Ok"
    \/ \E t \in Tasks : TaskReleaseCpuLock(t) /\ call'[t].result = "Ok"

\* C18: CPU Lock is balanced.  A successful acquire_cpu_lock takes CPU Lock
\* from inactive to active and the release_cpu_lock that matches it takes it
\* back to inactive; every other step that completes -- a system call with
\* the lock and unlock inside it, whatever it returns, an interrupt handler,
\* a dispatch -- ends with CPU Lock in the state in which it began.  So CPU
\* Lock is active only while the application code of the executing task
\* holds it.
C18_CpuLockBalanced ==
    /\ [][ ~panicked' =>
              /\ \A t \in Tasks :
                    (TaskAcquireCpuLock(t) /\ call'[t].result = "Ok")
                        => (~cpu_lock /\ cpu_lock')
              /\ \A t \in Tasks :
                    (TaskReleaseCpuLock(t) /\ call'[t].result = "Ok")
                        => (cpu_lock /\ ~cpu_lock')
              /\ ~ChangesCpuLockByDesign => (cpu_lock' = cpu_lock)
         ]_vars
    /\ []((phase = "run" /\ ~panicked /\ cpu_lock) =>
             \E t \in Tasks : Executing(t) /\ pc[t] \in {"user", "ret"})

\* A task has released the CPU Lock that it had acquired, and another task
\* has become Ready meanwhile or before
C18_Witness ==
    \E t \in Tasks :
        /\ pc[t] = "ret"
        /\ call[t].op = "release" /\ call[t].result = "Ok"
        /\ ~cpu_lock
        /\ \E u \in Tasks : st[u] = "Ready"

\* ---- C19 ------------------------------------------------------------------
\* Task t is Ready as boot leaves it: linked in the bucket of its priority,
\* its saved context initialized
ReadyForFirstDispatch(t) ==
    /\ st[t] = "Ready"
    /\ t \in SeqToSet(task_ready_queue[priority[t]])
    /\ priority[t] \in task_ready_bitmap
    /\ tsm[t] = "Dormant"

\* C19: at the moment boot calls dispatch_first_task, CPU Lock is active,
\* running_task is None and no task is PendingActivation; the tasks that are
\* configured active at start (PendingActivation before boot) are Ready in
\* the bucket of their priority with their saved context initialized, and
\* every other task is Dormant: boot makes exactly this of the initial
\* states, and the startup hooks that run before the call change none of it.
C19_StateAtFirstDispatch ==
    /\ [][ /\ (Boot /\ ~panicked') =>
                \A t \in Tasks :
                    /\ st[t] = "PendingActivation" => ReadyForFirstDispatch(t)'
                    /\ st[t] # "PendingActivation" => st'[t] = "Dormant"
           /\ (StartupHookEnter \/ StartupHookExit
                 \/ \E id \in Ids : StartupHookActivate(id)) =>
                UNCHANGED <<st, task_ready_queue, task_ready_bitmap,
                            running_task, tsm, cpu_lock>>
         ]_vars
    /\ [](phase = "first_dispatch" =>
            /\ cpu_lock
            /\ running_task = None
            /\ \A t \in Tasks :
                  /\ st[t] # "PendingActivation"
                  /\ st[t] = "Dormant" \/ ReadyForFirstDispatch(t))

\* Boot is about to call dispatch_first_task with a task Ready and a task
\* Dormant
C19_Witness ==
    /\ phase = "first_dispatch"
    /\ ~panicked
    /\ \E t \in Tasks : ReadyForFirstDispatch(t)
    /\ \E t \in Tasks : st[t] = "Dormant"

\* ---- C20 ------------------------------------------------------------------
\* C20: the interrupt line that the startup hook enables and pends is not
\* delivered while boot holds CPU Lock: its handler runs only after the hook
\* has returned and boot has released CPU Lock (the tracker goes 0 -> 1 at the
\* entry of the hook, 1 -> 2 at its exit, 2 -> 3 in the handler), never in
\* between.
C20_NoInterruptDuringBoot ==
    /\ [][ /\ IsrLine => (phase = "run" /\ seq = 2 /\ seq' = 3 /\ ~panicked')
           /\ StartupHookEnter => (seq = 0 /\ seq' = 1)
           /\ StartupHookExit => (seq = 1 /\ seq' = 2 /\ line_pended)
           /\ seq' # seq => (StartupHookEnter \/ StartupHookExit \/ IsrLine)
         ]_vars
    /\ [](phase # "run" => ~LineDeliverable)

\* The handler has run after the hook: the tracker is at 3
C20_Witness ==
    /\ seq = 3
    /\ ~line_pended
    /\ ~panicked
    /\ phase = "run"

\* ---- C21 ------------------------------------------------------------------
\* C21 as stated: the handler of the interrupt line that the startup hook
\* enabled and pended is not delivered until after the first task has started
\* running and CPU Lock has been released.
C21_HandlerAfterFirstTask ==
    [][ IsrLine => (~cpu_lock /\ first_task_started) ]_vars

\* C21 (amended): the handler of the interrupt line that the startup hook
\* enabled and pended is not delivered until dispatch_first_task has released
\* the CPU Lock that boot holds from its beginning through the startup hooks;
\* it does not wait for the first task to start running.
C21_HandlerAfterBootLock ==
    /\ [][ IsrLine => (~cpu_lock /\ phase = "run") ]_vars
    /\ [](phase # "run" => (cpu_lock /\ seq # 3 /\ ~first_task_started))

\* Boot has ended, the handler has run, and the dispatcher has then started
\* the first task
C21_Witness ==
    /\ seq = 3
    /\ ~line_pended
    /\ first_task_started
    /\ \E t \in Tasks : Executing(t) /\ pc[t] = "user"

\* ---- C22 ------------------------------------------------------------------
\* The handle that Task::current returns in kernel state k stands for the
\* control block r: Ok(None) when r is None, else Ok(Some(h)) with the id of
\* h one more than the index of r in the pool, and h resolves to r
CurrentIs(k, r) ==
    LET c == Current(k, FALSE)
    IN  /\ c.result = "Ok"
        /\ (c.id = None) <=> (k.rt = None)
        /\ k.rt # None =>
              /\ c.id = 1 + OffsetFromPool(k.rt)
              /\ TaskCbOfId(c.id) = r
        /\ k.rt = r

TaskCalls(t, op) == \E pri \in PriorityInputs : TaskLineCall(t, op, pri)

\* This step is a call of the method op of the interrupt line in the startup
\* hook
HookCalls(op) == \E pri \in PriorityInputs : HookLineCall(op, pri)

\* C23: pending the interrupt line while CPU Lock is active, or while the
\* line is disabled, sets its pending flag (is_pending reports the flag:
\* true) and the handler does not run; clear resets the flag, so that when
\* the flag is cleared before CPU Lock is released or the line is enabled
\* again, the handler does not run then either (it runs only for a line that
\* is pended, enabled and not masked by CPU Lock) and is_pending reports
\* false; the flag is set by pend alone.
C23_MaskedPendAndClear ==
    [][ /\ \A t \in Tasks :
              (TaskCalls(t, "pend") /\ (cpu_lock \/ ~line_enable)) =>
                  /\ call'[t].result = "Ok"
                  /\ line_pended'
                  /\ ~LineDeliverable'
                  /\ ~panicked'
        /\ HookCalls("pend") => (line_pended' /\ ~LineDeliverable' /\ ~panicked')
        /\ \A t \in Tasks :
              TaskCalls(t, "is_pending") =>
                  /\ call'[t].result = (IF line_pended THEN "True" ELSE "False")
                  /\ UNCHANGED <<line_enable, line_pended, line_priority>>
        /\ \A t \in Tasks : TaskCalls(t, "clear") => (~line_pended' /\ ~LineDeliverable')
        /\ HookCalls("clear") => ~line_pended'
        /\ IsrUnreachable => (line_pended /\ line_enable /\ ~cpu_lock)
        /\ (~line_pended /\ ~line_pended') => (~LineDeliverable' /\ ~IsrUnreachable)
        /\ (~line_pended /\ line_pended') =>
              (HookCalls("pend") \/ \E t \in Tasks : TaskCalls(t, "pend"))
      ]_vars

\* A task that holds CPU Lock has pended the enabled line and is_pending has
\* reported true; the handler has not run
C23_Witness ==
    \E t \in Tasks :
        /\ pc[t] = "ret"
        /\ call[t].op = "is_pending" /\ call[t].result = "True"
        /\ cpu_lock /\ line_enable /\ line_pended
        /\ ~panicked

\* ---- C24 ------------------------------------------------------------------
\* C24: InterruptLine::set_priority returns BadContext in the startup hook
\* and in a task that holds CPU Lock, BadParam (in a task, CPU Lock inactive)
\* for a priority outside the managed range -- one below its start, its end
\* -- and Ok for every priority inside it, which then is the priority of the
\* line; a call that fails leaves the priority of the line as it is, and no
\* call changes the other attributes of the line.
C24_SetPriority ==
    [][ /\ \A pri \in PriorityInputs :
              HookLineCall("set_priority", pri) =>
                  /\ LineCall(LineSt, "set_priority", cpu_lock, FALSE, pri).result
                        = "BadContext"
                  /\ UNCHANGED <<line_enable, line_pended, line_priority>>
        /\ \A t \in Tasks : \A pri \in PriorityInputs :
              TaskLineCall(t, "set_priority", pri) =>
                  /\ call'[t].result =
                        (IF cpu_lock THEN "BadContext"
                         ELSE IF pri \in ManagedInterruptPriorityRange THEN "Ok"
                         ELSE "BadParam")
                  /\ line_priority' = (IF call'[t].result = "Ok" THEN pri
                                       ELSE line_priority)
                  /\ UNCHANGED <<line_enable, line_pended>>
      ]_vars

\* set_priority has set the highest managed priority and has then rejected
\* the end of the range with BadParam
C24_Witness ==
    \E t \in Tasks :
        /\ pc[t] = "ret"
        /\ call[t] = [op |-> "set_priority", target |-> ManagedPriorityEnd,
                      result |-> "BadParam"]
        /\ line_priority = ManagedPriorityEnd - 1
        /\ ~cpu_lock


\* ---------------------------------------------------------------------------
\* C25: the tasks blocked on a wait queue ordered by task priority are woken
\* one per signal, in the order of their priorities and first come, first
\* served among equal priorities; a change of a waiting task's priority puts
\* it behind the waiters that already have its new priority, so that the
\* order of wake-up follows the priorities in force when the signal comes
\* (activation order 3, 1, 2, 4 and then task3 -> 2, task4 -> 3 wakes 1, 2, 3, 4).

PosIn(s, w) == CHOOSE i \in 1..Len(s) : s[i] = w

\* w is to be woken before u: it is more urgent, or as urgent and has been
\* waiting at that priority for longer
WakesBefore(w, u) ==
    \/ waiter_priority[w] < waiter_priority[u]
    \/ /\ waiter_priority[w] = waiter_priority[u]
       /\ PosIn(wait_order, w) < PosIn(wait_order, u)

WaitQueueInOrder ==
    /\ \A i \in 1..Len(wait_queue) : \A j \in 1..Len(wait_queue) :
           i < j => WakesBefore(wait_queue[i], wait_queue[j])
    /\ \A w \in Waiters : InQueue(wait_queue, w) <=> InQueue(wait_order, w)

OneWokenInOrder ==
    woken' # woken =>
        /\ Len(woken') = Len(woken) + 1
        /\ SubSeq(woken', 1, Len(woken)) = woken
        /\ LET w == woken'[Len(woken')]
           IN  /\ InQueue(wait_queue, w)
               /\ \A u \in Waiters :
                      (InQueue(wait_queue, u) /\ u # w) => WakesBefore(w, u)
               /\ wait_queue' = RemoveWait(wait_queue, w)

RepositionedBehindEquals ==
    \A w \in Waiters :
        (InQueue(wait_queue, w) /\ waiter_priority'[w] # waiter_priority[w]) =>
            /\ InQueue(wait_queue', w)
            /\ RemoveWait(wait_queue', w) = RemoveWait(wait_queue, w)
            /\ \A u \in Waiters :
                   (InQueue(wait_queue, u) /\ u # w)
                   => IF waiter_priority[u] <= waiter_priority'[w]
                      THEN PosIn(wait_queue', u) < PosIn(wait_queue', w)
                      ELSE PosIn(wait_queue', w) < PosIn(wait_queue', u)

\* The run of the test: the waiters come in the order 3, 1, 2, 4, then the
\* priority of task3 becomes 2 and that of task4 becomes 3
ReorderScenario ==
    LET p0 == InitialWaiterPriority
        q0 == InsertWait(InsertWait(InsertWait(InsertWait(<< >>, 3, p0), 1, p0), 2, p0), 4, p0)
        p1 == [p0 EXCEPT ![3] = 2]
        q1 == ReorderWait(q0, 3, p1)
        p2 == [p1 EXCEPT ![4] = 3]
        q2 == ReorderWait(q1, 4, p2)
    IN  /\ q0 = <<3, 1, 2, 4>>
        /\ q1 = <<1, 2, 4, 3>>
        /\ q2 = <<1, 2, 3, 4>>

C25_WakeInPriorityOrder ==
    /\ [](WaitQueueInOrder /\ ReorderScenario)
    /\ [][OneWokenInOrder /\ RepositionedBehindEquals]_vars

\* The four tasks of the test have been woken in the order 1, 2, 3, 4 with
\* the priorities the test gives them in the end
C25_Witness ==
    /\ woken = <<1, 2, 3, 4>>
    /\ waiter_priority[1] = 1
    /\ waiter_priority[2] = 2
    /\ waiter_priority[3] = 2
    /\ waiter_priority[4] = 3


\* ---------------------------------------------------------------------------
\* C26: no lost preemption.  Whenever CPU Lock is inactive, no interrupt
\* handler is active and the code of a task is executing, either no Ready
\* task has a strictly higher priority than running_task or a dispatch has
\* been requested (yield_cpu) and not yet served; this holds also when an
\* interrupt handler makes a task Ready between the comparison of the
\* priorities and the call of yield_cpu in unlock_cpu_and_check_preemption.

\* The thread of a task has the processor and is outside of the kernel's
\* system calls, or returning from one
TaskCodeExecuting ==
    /\ phase = "run"
    /\ ~panicked
    /\ ~exiting
    /\ task_thread # None
    /\ pc[task_thread] \in {"user", "ret"}

RunningTaskPriority == IF running_task # None THEN priority[running_task] ELSE UsizeMax

MoreUrgentReady == \E u \in Tasks : st[u] = "Ready" /\ priority[u] < RunningTaskPriority

\* A handler that leaves a more urgent task Ready has pended the dispatcher
HandlerRequestsDispatch ==
    \A u \in Tasks :
        ((IsrActivate(u) \/ IsrWakeUp(u)) /\ ~panicked' /\ MoreUrgentReady')
        => dispatch_pended'

SwitchDecided == ~KeepRunning(PrevTaskPriority(KState), FindSet(task_ready_bitmap))

\* The match on the state of the previous task takes its last arm
UnreachableReached ==
    LET next_task_priority == FindSet(task_ready_bitmap)
    IN  IF next_task_priority < NumPriorityLevels
        THEN /\ task_ready_queue[next_task_priority] # << >>
             /\ RequeuePrev(TakeNext(KState, next_task_priority).k, running_task).panic
        ELSE RequeuePrev(KState, running_task).panic

C27_PrevRunningOrWaiting ==
    [][ (Dispatch /\ SwitchDecided)
            => /\ running_task # None => st[running_task] \in {"Running", "Waiting"}
               /\ ~UnreachableReached ]_vars


\* ---------------------------------------------------------------------------
\* C28: no round-robin within a priority.  Once a task t is Running, no task
\* of equal priority that became Ready after t started running gets to run
\* before t blocks or exits -- also when t is preempted by a task of higher
\* priority in between and resumed later.

\* Task u is made Running in this step
StartsRunning(u) == st[u] # "Running" /\ st'[u] = "Running" /\ ~panicked'

C28_NoRoundRobin ==
    [][ \A t \in Tasks : \A u \in late[t] : ~StartsRunning(u) ]_vars

\* Task t is preempted in this step: the dispatcher makes it Ready
Preempted(t) == Dispatch /\ st[t] = "Running" /\ st'[t] = "Ready" /\ ~panicked'

\* Amended: as long as t is the Running task, no task of its priority that
\* became Ready after t started running gets to run, and only a task of
\* strictly higher priority takes the processor from it; a preempted t is
\* linked behind the Ready tasks of its priority, so those run before t does.
C28_NoRoundRobinUntilPreempted ==
    [][ \A t \in Tasks :
           /\ (st[t] = "Running" /\ running_task = t)
                 => \A u \in late[t] : ~StartsRunning(u)
           /\ Preempted(t)
                 => /\ running_task' # None
                    /\ priority[running_task'] < priority[t]
                    /\ task_ready_queue'[priority[t]] =
                           Append(task_ready_queue[priority[t]], t)
                    /\ late'[t] = late[t]
      ]_vars

\* Task t has been preempted and now waits in its bucket behind a task of
\* its priority that became Ready after t had started running
C28_Witness ==
    \E t \in Tasks : \E u \in late[t] :
        /\ phase = "run" /\ ~panicked
        /\ st[t] = "Ready"
        /\ running_task # None /\ running_task # t
        /\ priority[running_task] < priority[t]
        /\ task_ready_queue[priority[t]] = <<u, t>>


\* ---------------------------------------------------------------------------
\* C29: every step that changes the state of a task, a ready bucket, the
\* ready bitmap or running_task is taken while CPU Lock is active; no
\* interrupt handler and no other task observes a state in which only a part
\* of an update of activate, of a wake-up, of exit or of the dispatcher has
\* been applied.

KernelWrite ==
    \/ st' # st
    \/ task_ready_queue' # task_ready_queue
    \/ task_ready_bitmap' # task_ready_bitmap
    \/ running_task' # running_task

\* The positions between the first and the last write of an update
UpdatePcs == {"mr_push", "mr_bm", "cn_clear", "cn_run", "cn_prev", "cn_store", "ex_rt"}

InUpdate(c) == frame[c].pc \in UpdatePcs

\* What a handler or a task relies on when it takes CPU Lock: the bitmap
\* says which buckets are non-empty, the Ready tasks are those linked (once,
\* in the bucket of their priority), and the task that is Running, if any,
\* is running_task
UpdateComplete ==
    /\ task_ready_bitmap = {p \in Priorities : task_ready_queue[p] # << >>}
    /\ \A t \in Tasks : \A p \in Priorities :
           Cardinality({i \in 1..Len(task_ready_queue[p]) : task_ready_queue[p][i] = t})
               = IF st[t] = "Ready" /\ p = priority[t] THEN 1 ELSE 0
    /\ \A t \in Tasks : st[t] = "Running" => running_task = t

C29_WritesUnderCpuLock ==
    /\ [][KernelWrite => (cpu_lock /\ cpu_lock')]_vars
    /\ [](~panicked => \A c \in Ctx : InUpdate(c) => (cpu_lock /\ Runs(c)))
    /\ []((~panicked /\ ~cpu_lock) => UpdateComplete)

\* An interrupt handler is in the middle of make_ready, under CPU Lock, having
\* interrupted a task between leave_cpu_lock and yield_cpu
C29_Witness ==
    /\ ~panicked /\ cpu_lock
    /\ frame[IsrCtx].pc = "mr_push"
    /\ st[frame[IsrCtx].target] = "Ready"
    /\ \E t \in Tasks : task_thread = t /\ frame[t].pc = "un_yield"

\* ---------------------------------------------------------------------------
\* C30: the preconditions of the port calls hold at every call the kernel
\* makes, in every execution: enter_cpu_lock is called only with CPU Lock
\* inactive, leave_cpu_lock only with CPU Lock active, yield_cpu only with
\* CPU Lock inactive, and initialize_task_state, exit_and_dispatch and
\* dispatch_first_task only with CPU Lock active.

\* The positions in front of a port call that needs CPU Lock active
\* (leave_cpu_lock, initialize_task_state, exit_and_dispatch,
\* dispatch_first_task), and inactive (yield_cpu, enter_cpu_lock)
NeedsCpuLock ==
    {"b_port", "b_first", "act_init", "un_drop", "wt_leave", "wt_drop", "d_leave"}

NeedsNoCpuLock == {"un_yield", "wt_yield", "wt_enter", "ex_yield"}

C30_PortPreconditions ==
    /\ port_fault = "none"
    /\ \A c \in Ctx :
           Runs(c) =>
               /\ frame[c].pc \in NeedsCpuLock => cpu_lock
               /\ frame[c].pc \in NeedsNoCpuLock => ~cpu_lock
               /\ (frame[c].pc = "ex_port" /\ c # IsrCtx) => cpu_lock

\* A task that waited has been woken and dispatched and has re-entered CPU
\* Lock in the loop of wait_until_woken_up, after leave_cpu_lock and yield_cpu
C30_Witness ==
    \E t \in Tasks :
        /\ ~panicked /\ cpu_lock /\ port_fault = "none"
        /\ task_thread = t /\ running_task = t
        /\ frame[t].pc = "wt_check"
        /\ st[t] = "Running"

\* ---------------------------------------------------------------------------
\* The Arm-M port (constance_port_arm_m/src/threading.rs): boot, activate and
\* exit_task with the port's exception handlers.  Thread mode executes the
\* boot code on the main stack and afterwards the task into whose stack PSP
\* points.  port_boot gives SVCall and PendSV the lowest priority, so they are
\* taken in Thread mode only; a first-level interrupt handler has a higher
\* priority and is taken wherever CPU Lock (PRIMASK or BASEPRI) is inactive.
\* A critical section of the kernel is one step, and so is an interrupt
\* handler; the port's functions and handlers are taken step by step.

\* What a task's stack and TaskState::sp hold:
\*   "null"       sp = 0 (TaskState::INIT)
\*   "initial"    the frames built by initialize_task_state, sp points at them
\*   "live"       the context has been restored: the task executes on the stack
\*   "saved"      the frames stored by handle_pend_sv, sp points at them
\*   "abandoned"  the task has executed svc in exit_and_dispatch
\*   "clobbered"  initialize_task_state has rewritten the stack while live
\*   "foreign"    handle_pend_sv has stored a PSP of another task's stack in sp
ArmStackSt == {"null", "initial", "live", "saved", "abandoned", "clobbered", "foreign"}

\* The kernel-owned part of the state with the Arm-M task contexts
ArmKState ==
    [st |-> st, q |-> task_ready_queue, bm |-> task_ready_bitmap,
     rt |-> running_task, tsm |-> tsm, panic |-> panicked,
     stack |-> task_stack, psp |-> psp]

ArmStore(k) ==
    /\ Store(k)
    /\ task_stack' = k.stack

\* State::initialize_task_state (Arm-M): writes the exception frame and the
\* extra context at the top of the task's stack and points sp at them,
\* whatever the stack holds
ArmInitializeTaskState(k, t) ==
    [k EXCEPT !.stack[t] = IF k.psp = t /\ k.stack[t] = "live"
                           THEN "clobbered" ELSE "initial"]

\* init_task and the loop of PortToKernel::boot with the Arm-M port
ArmInitTask(k, t) ==
    IF k.st[t] = "PendingActivation"
    THEN MakeReady(ArmInitializeTaskState(k, t), t)
    ELSE k

RECURSIVE ArmInitTasks(_, _)
ArmInitTasks(k, i) ==
    IF i > NumTasks THEN k ELSE ArmInitTasks(ArmInitTask(k, i), i + 1)

\* activate with the Arm-M port, up to and including the comparison of
\* unlock_cpu_and_check_preemption
ArmActivate(k, task_cb) ==
    IF k.st[task_cb] # "Dormant"
    THEN [k |-> k, result |-> "QueueOverflow", yield |-> FALSE]
    ELSE LET k2 == MakeReady(ArmInitializeTaskState(k, task_cb), task_cb)
         IN  [k |-> k2, result |-> "Ok", yield |-> CheckPreemption(k2)]

\* PendSvDeliverable where PendSV has a higher priority than SVCall
PendSvDeliverable_PreemptsSvc ==
    /\ dispatch_pended /\ ~cpu_lock
    /\ handler = << >> \/ (Len(handler) = 1 /\ Head(handler).h = "svc")

\* PendSV is taken: it is pended, not masked by CPU Lock, and the processor
\* is in Thread mode
PendSvDeliverable == dispatch_pended /\ ~cpu_lock /\ handler = << >>

\* The context that Thread mode executes
ArmThread == IF phase = "boot" THEN BootCtx ELSE psp

ArmRuns(c) ==
    /\ ~panicked
    /\ handler = << >>
    /\ ~PendSvDeliverable
    /\ c = ArmThread
    /\ frame[c].pc # "idle"

\* The innermost handler is at position l
HandlerAt(h, l) ==
    /\ ~panicked
    /\ handler # << >>
    /\ Head(handler).h = h
    /\ Head(handler).pc = l

HandlerGoto(l) == handler' = <<[Head(handler) EXCEPT !.pc = l]>> \o Tail(handler)

\* PortToKernel::boot under the CPU Lock of port_boot
ArmBoot ==
    /\ ~panicked
    /\ phase = "boot"
    /\ frame[BootCtx].pc = "b_init"
    /\ ArmStore(ArmInitTasks(ArmKState, 1))
    /\ frame' = [frame EXCEPT ![BootCtx].pc = "b_first"]
    /\ UNCHANGED <<priority, active_at_start, cpu_lock, dispatch_pended, phase, task_thread, exiting,
                   pc, call, line_priority, port_fault, psp, handler>>
    /\ UNCHANGED intr
    /\ UNCHANGED hist
    /\ UNCHANGED wq
    /\ UNCHANGED plic

\* dispatch_first_task: leave_cpu_lock ("Re-enable interrupts so svc can
\* execute")
ArmDispatchFirstTaskLeave ==
    /\ ~panicked
    /\ phase = "boot"
    /\ frame[BootCtx].pc = "b_first"
    /\ cpu_lock' = FALSE
    /\ frame' = [frame EXCEPT ![BootCtx].pc = "a_svc"]
    /\ UNCHANGED <<st, priority, active_at_start, task_ready_queue, task_ready_bitmap, running_task,
                   tsm, panicked, dispatch_pended, phase, task_thread, exiting,
                   pc, call, line_priority, port_fault>>
    /\ UNCHANGED arm
    /\ UNCHANGED intr
    /\ UNCHANGED hist
    /\ UNCHANGED wq
    /\ UNCHANGED plic

\* "svc 42" in dispatch_first_task and in exit_and_dispatch: handle_sv_call
\* is entered and the context that executed svc is discarded.  On a stack
\* that initialize_task_state has rewritten the return to svc is unpredictable.
ArmSvc(c) ==
    /\ ArmRuns(c)
    /\ frame[c].pc = "a_svc"
    /\ \E crash \in IF c \in Tasks /\ task_stack[c] = "clobbered" THEN BOOLEAN ELSE {FALSE} :
          /\ panicked' = crash
          /\ IF crash
             THEN UNCHANGED <<handler, frame, task_stack, phase>>
             ELSE /\ handler' = <<[h |-> "svc", pc |-> "enter"]>>
                  /\ frame' = [frame EXCEPT ![c] = IdleFrame]
                  /\ task_stack' = IF c \in Tasks
                                   THEN [task_stack EXCEPT ![c] = "abandoned"]
                                   ELSE task_stack
                  /\ phase' = "run"
    /\ UNCHANGED <<st, priority, active_at_start, task_ready_queue, task_ready_bitmap, running_task,
                   tsm, cpu_lock, dispatch_pended, task_thread, exiting,
                   pc, call, line_priority, port_fault, psp>>
    /\ UNCHANGED intr
    /\ UNCHANGED hist
    /\ UNCHANGED wq
    /\ UNCHANGED plic

\* Task::activate called by task t (Thread mode); yield_cpu pends PendSV
ArmTaskActivate(t, u) ==
    /\ ArmRuns(t)
    /\ frame[t].pc = "user"
    /\ ~cpu_lock
    /\ LET r == ArmActivate(ArmKState, u)
       IN  /\ ArmStore(r.k)
           /\ dispatch_pended' = (dispatch_pended \/ r.yield)
    /\ UNCHANGED <<priority, active_at_start, cpu_lock, phase, task_thread, exiting,
                   pc, call, line_priority, port_fault, frame, psp, handler>>
    /\ UNCHANGED intr
    /\ UNCHANGED hist
    /\ UNCHANGED wq
    /\ UNCHANGED plic

\* exit_task called by task t: exit_current_task, then exit_and_dispatch up
\* to and including its leave_cpu_lock
ArmTaskExit(t) ==
    /\ ArmRuns(t)
    /\ frame[t].pc = "user"
    /\ LET k == ExitCurrentTask(ArmKState)
       IN  /\ ArmStore(k)
           /\ cpu_lock' = IF k.panic THEN TRUE ELSE FALSE
           /\ frame' = IF k.panic THEN frame ELSE [frame EXCEPT ![t].pc = "a_svc"]
    /\ UNCHANGED <<priority, active_at_start, dispatch_pended, phase, task_thread, exiting,
                   pc, call, line_priority, port_fault, psp, handler>>
    /\ UNCHANGED intr
    /\ UNCHANGED hist
    /\ UNCHANGED wq
    /\ UNCHANGED plic

\* A first-level interrupt handler that calls Task::activate on task u.  It
\* preempts Thread mode and the handlers of SVCall and PendSV alike.
ArmIsrActivate(u) ==
    /\ ~panicked
    /\ ~cpu_lock
    /\ LET r == ArmActivate(ArmKState, u)
       IN  /\ ArmStore(r.k)
           /\ dispatch_pended' = (dispatch_pended \/ r.yield)
    /\ UNCHANGED <<priority, active_at_start, cpu_lock, phase, task_thread, exiting,
                   pc, call, line_priority, port_fault, frame, psp, handler>>
    /\ UNCHANGED intr
    /\ UNCHANGED hist
    /\ UNCHANGED wq
    /\ UNCHANGED plic

\* The exception entry of PendSV
ArmPendSvEnter ==
    /\ ~panicked
    /\ PendSvDeliverable
    /\ dispatch_pended' = FALSE
    /\ handler' = <<[h |-> "pendsv", pc |-> "save"]>> \o handler
    /\ UNCHANGED <<st, priority, active_at_start, task_ready_queue, task_ready_bitmap, running_task,
                   tsm, panicked, cpu_lock, phase, task_thread, exiting,
                   pc, call, line_priority, port_fault, frame, psp, task_stack>>
    /\ UNCHANGED intr
    /\ UNCHANGED hist
    /\ UNCHANGED wq
    /\ UNCHANGED plic

\* handle_pend_sv, "Save the context of the previous task": r1 =
\* running_task, r2 = psp - 40, r1.port_task_state.sp = r2, with no test of
\* running_task.  With running_task = None the store goes through a null
\* pointer: the outcome is a fault or a write that is lost.
ArmPendSvSave ==
    /\ HandlerAt("pendsv", "save")
    /\ \E crash \in IF running_task = None THEN BOOLEAN ELSE {FALSE} :
          /\ panicked' = crash
          /\ IF crash THEN UNCHANGED handler ELSE HandlerGoto("enter")
    /\ task_stack' = IF running_task = None THEN task_stack
                     ELSE [task_stack EXCEPT ![running_task] =
                              IF psp = running_task THEN "saved" ELSE "foreign"]
    /\ UNCHANGED <<st, priority, active_at_start, task_ready_queue, task_ready_bitmap, running_task,
                   tsm, cpu_lock, dispatch_pended, phase, task_thread, exiting,
                   pc, call, line_priority, port_fault, frame, psp>>
    /\ UNCHANGED intr
    /\ UNCHANGED hist
    /\ UNCHANGED wq
    /\ UNCHANGED plic

\* choose_next_task of handle_pend_sv and handle_sv_call: enter_cpu_lock_inner
ArmEnterCpuLock ==
    /\ \E h \in {"pendsv", "svc"} : HandlerAt(h, "enter")
    /\ cpu_lock' = TRUE
    /\ HandlerGoto("choose")
    /\ UNCHANGED <<st, priority, active_at_start, task_ready_queue, task_ready_bitmap, running_task,
                   tsm, panicked, dispatch_pended, phase, task_thread, exiting,
                   pc, call, line_priority, port_fault, frame, psp, task_stack>>
    /\ UNCHANGED intr
    /\ UNCHANGED hist
    /\ UNCHANGED wq
    /\ UNCHANGED plic

\* choose_next_task: System::choose_running_task()
ArmChooseRunningTask ==
    /\ \E h \in {"pendsv", "svc"} : HandlerAt(h, "choose")
    /\ ArmStore(ChooseNextRunningTask(ArmKState))
    /\ HandlerGoto("leave")
    /\ UNCHANGED <<priority, active_at_start, cpu_lock, dispatch_pended, phase, task_thread, exiting,
                   pc, call, line_priority, port_fault, frame, psp>>
    /\ UNCHANGED intr
    /\ UNCHANGED hist
    /\ UNCHANGED wq
    /\ UNCHANGED plic

\* choose_next_task: leave_cpu_lock_inner
ArmLeaveCpuLock ==
    /\ \E h \in {"pendsv", "svc"} : HandlerAt(h, "leave")
    /\ cpu_lock' = FALSE
    /\ HandlerGoto("restore")
    /\ UNCHANGED <<st, priority, active_at_start, task_ready_queue, task_ready_bitmap, running_task,
                   tsm, panicked, dispatch_pended, phase, task_thread, exiting,
                   pc, call, line_priority, port_fault, frame, psp, task_stack>>
    /\ UNCHANGED intr
    /\ UNCHANGED hist
    /\ UNCHANGED wq
    /\ UNCHANGED plic

\* "Restore the context of the next task": "if r1.is_none() { goto
\* ChooseTask; }", else r2 = r1.port_task_state.sp, psp = &r2[10] and the
\* exception return.  A context that initialize_task_state wrote under an
\* active exception frame may have been overwritten since: the task starts
\* or the processor faults.  An sp that points at no stored context faults.
ArmRestore ==
    /\ \E h \in {"pendsv", "svc"} : HandlerAt(h, "restore")
    /\ IF running_task = None
       THEN /\ HandlerGoto("enter")
            /\ UNCHANGED <<panicked, psp, task_stack, frame, phase>>
       ELSE \E crash \in CASE task_stack[running_task] \in {"initial", "saved"} -> {FALSE}
                           [] task_stack[running_task] = "clobbered" -> BOOLEAN
                           [] OTHER -> {TRUE} :
               /\ panicked' = crash
               /\ IF crash
                  THEN UNCHANGED <<handler, psp, task_stack, frame, phase>>
                  ELSE /\ handler' = Tail(handler)
                       /\ psp' = running_task
                       /\ task_stack' = [task_stack EXCEPT ![running_task] = "live"]
                       /\ frame' = [frame EXCEPT
                              ![BootCtx] = IdleFrame,
                              ![running_task] =
                                  IF task_stack[running_task] = "saved"
                                  THEN frame[running_task] ELSE UserFrame]
                       /\ phase' = "run"
    /\ UNCHANGED <<st, priority, active_at_start, task_ready_queue, task_ready_bitmap, running_task,
                   tsm, cpu_lock, dispatch_pended, task_thread, exiting,
                   pc, call, line_priority, port_fault>>
    /\ UNCHANGED intr
    /\ UNCHANGED hist
    /\ UNCHANGED wq
    /\ UNCHANGED plic

NextArm ==
    \/ ArmBoot
    \/ ArmDispatchFirstTaskLeave
    \/ \E c \in Tasks \cup {BootCtx} : ArmSvc(c)
    \/ \E t \in Tasks : \E u \in Tasks : ArmTaskActivate(t, u)
    \/ \E t \in Tasks : ArmTaskExit(t)
    \/ \E u \in Tasks : ArmIsrActivate(u)
    \/ ArmPendSvEnter
    \/ ArmPendSvSave
    \/ ArmEnterCpuLock
    \/ ArmChooseRunningTask
    \/ ArmLeaveCpuLock
    \/ ArmRestore

SpecArm == Init /\ [][NextArm]_vars

\* ---------------------------------------------------------------------------
\* C31: the dispatcher is never re-entered.  choose_running_task is not
\* invoked while an earlier invocation has not finished (at most one of the
\* handlers of SVCall and PendSV is active), nor while another context holds
\* CPU Lock (CPU Lock is inactive when a handler reaches enter_cpu_lock_inner,
\* and it is the handler's own from there to leave_cpu_lock_inner).
DispatcherOnce == Len(handler) <= 1

ChooseUnderOwnLock ==
    \A i \in 1..Len(handler) :
        /\ handler[i].pc = "enter" => ~cpu_lock
        /\ handler[i].pc \in {"choose", "leave"} => cpu_lock /\ i = 1

C31_DispatcherNotReentered == DispatcherOnce /\ ChooseUnderOwnLock

\* PendSV has been pended again while a handler is about to call
\* choose_running_task
C31_Witness ==
    /\ Len(handler) = 1
    /\ Head(handler).pc = "choose"
    /\ dispatch_pended
    /\ ~panicked

\* The same for the simulated port, step by step: State::dispatch begins
\* only when no earlier call of it is active and CPU Lock is inactive
SimulatedDispatcherNotReentered ==
    [][(frame'[DispCtx].pc = "cn_read" /\ frame[DispCtx].pc # "cn_read")
          => (frame[DispCtx].pc = "idle" /\ ~cpu_lock)]_vars

\* ---------------------------------------------------------------------------
\* C32: a task's saved context and stack are never re-initialized while the
\* processor still executes on that task's stack: initialize_task_state is
\* not run on a task between its exit_task and the dispatcher's switch away
\* from its stack.
C32_NoReinitOfLiveStack ==
    \A t \in Tasks : ~(psp = t /\ task_stack[t] = "clobbered")

\* ---------------------------------------------------------------------------
\* C33: the handler of PendSV, which stores the outgoing context through
\* running_task, is entered only when running_task is present and PSP points
\* into that task's stack; a PendSV pended in the window between
\* leave_cpu_lock and svc of dispatch_first_task or exit_and_dispatch is
\* never taken.
C33_PendSvHasOutgoingTask ==
    \A i \in 1..Len(handler) :
        (handler[i].h = "pendsv" /\ handler[i].pc = "save")
            => (running_task # None /\ psp = running_task)

\* ---------------------------------------------------------------------------
\* C34: whether or not the exiting task held CPU Lock when it called
\* exit_task, CPU Lock is inactive once exit_and_dispatch has given up the
\* task's thread, and it is inactive whenever a task starts or resumes
\* executing its code: the state of CPU Lock does not pass from one task to
\* the next across a dispatch.
StartsOrResumes(u) == ~Executing(u) /\ Executing(u)'

C34_NoLockLeak ==
    /\ []((exiting /\ ~panicked) => ~cpu_lock)
    /\ [][\A u \in Tasks : StartsOrResumes(u) => ~cpu_lock']_vars

\* A task that held CPU Lock has exited, and another task executes with CPU
\* Lock inactive
C34_Witness ==
    /\ exit_with_lock
    /\ ~cpu_lock
    /\ \E u \in Tasks : /\ Executing(u) /\ pc[u] = "user" /\ st[u] = "Running"
                        /\ \E t \in Tasks \ {u} : st[t] = "Dormant" /\ tsm[t] = "Uninit"

\* ---------------------------------------------------------------------------
\* C35: the task contexts of the simulated port.  The task chosen as
\* running_task never has an uninitialized context (Tsm::Uninit), every Ready
\* task has had initialize_task_state called since boot or since its last
\* exit, and initialize_task_state is never called on a context that is bound
\* to a live thread (Tsm::Running): a task that activate accepts, a Dormant
\* one, has no such context.
RunningTaskInitialized == running_task # None => tsm[running_task] # "Uninit"

ReadyTaskInitialized == \A t \in Tasks : st[t] = "Ready" => tsm[t] # "Uninit"

DormantTaskUnbound ==
    \A t \in Tasks : st[t] \in {"Dormant", "PendingActivation"} => tsm[t] # "Running"

C35_PortContexts ==
    ~panicked => /\ RunningTaskInitialized
                 /\ ReadyTaskInitialized
                 /\ DormantTaskUnbound

\* A thread is still inside exit_and_dispatch and every task, the one that
\* exited included, has been activated again
C35_Witness ==
    /\ exiting
    /\ ~panicked
    /\ \A t \in Tasks : st[t] \in {"Ready", "Running", "Waiting"} /\ tsm[t] # "Uninit"

\* ---------------------------------------------------------------------------
\* C36: in every state with CPU Lock inactive, running_task, when present,
\* is Running, Waiting or Ready, never Dormant or PendingActivation:
\* exit_current_task erases running_task before CPU Lock is released.  (With
\* the functions taken step by step; running_task is Dormant between the two
\* writes of exit_current_task, under CPU Lock.)
C36_RunningTaskNotDormantUnlocked ==
    (~cpu_lock /\ running_task # None)
        => st[running_task] \in {"Running", "Waiting", "Ready"}

\* A task has gone through exit_current_task and exit_and_dispatch has
\* released CPU Lock
C36_Witness ==
    /\ ~cpu_lock
    /\ ~panicked
    /\ running_task = None
    /\ \E t \in Tasks : frame[t].pc = "ex_yield" /\ st[t] = "Dormant"


\* ---------------------------------------------------------------------
\* running_task is erased by exit_current_task only

\* a step that takes running_task from a task to None
ErasesRunningTask == running_task # None /\ running_task' = None

\* exit_current_task stores None to running_task (task.rs:324)
ExitErases == \E c \in Ctx : frame[c].pc = "ex_rt" /\ frame'[c].pc = "ex_port"

\* choose_next_running_task stores its choice to running_task (task.rs:527)
ChooseStores == frame[DispCtx].pc = "cn_store" /\ frame'[DispCtx].pc = "d_leave"

\* choose_next_running_task found no Ready task: FindSet gave usize::MAX
ChooseFoundNothing ==
    /\ frame[DispCtx].pc = "cn_read"
    /\ task_ready_bitmap = {}

\* C37: choose_next_running_task never takes running_task from a task to
\* None; when it finds no Ready task it returns with the kernel state as it
\* was, a Waiting running task included; the only step that erases
\* running_task is the store of exit_current_task.
C37_ChooseNeverErases ==
    [][/\ ErasesRunningTask => (ExitErases /\ ~ChooseStores)
       /\ ChooseFoundNothing =>
              /\ frame'[DispCtx].pc = "d_leave"
              /\ KState' = KState]_vars

\* the dispatcher has returned from choose_next_running_task with no Ready
\* task and left a Waiting task in running_task
C37_Witness ==
    /\ frame[DispCtx].pc = "d_leave"
    /\ task_ready_bitmap = {}
    /\ running_task # None
    /\ st[running_task] = "Waiting"
    /\ ~panicked


\* ---------------------------------------------------------------------
\* The first task dispatched after boot.  The task pool is configured in
\* every way (priorities in any order, any set of tasks active at start);
\* the system boots, interrupt handlers activate tasks and the dispatcher
\* runs.  The tasks themselves make no system call.

InitBoot ==
    /\ InitPool
    /\ active_at_start = {t \in Tasks : st[t] = "PendingActivation"}

NextBoot ==
    \/ Boot
    \/ StartupHookEnter
    \/ \E id \in Ids : StartupHookActivate(id)
    \/ StartupHookExit
    \/ DispatchFirstTask
    \/ IsrLine
    \/ \E u \in Tasks : IsrActivate(u)
    \/ Dispatch

SpecBoot == InitBoot /\ [][NextBoot]_vars

\* Of the tasks S, the one with the highest priority (numerically lowest),
\* and among several of that priority the one with the lowest index in the
\* task pool
FirstOfPool(S) ==
    CHOOSE t \in S : \A u \in S :
        \/ priority[t] < priority[u]
        \/ priority[t] = priority[u] /\ OffsetFromPool(t) <= OffsetFromPool(u)

\* The dispatcher gives the processor to a task for the first time
FirstDispatch == ~first_task_started /\ first_task_started'

\* The tasks activated since construction other than by boot
ActivatedAfterBoot == {t \in Tasks : st[t] # "Dormant"} \ active_at_start

InterruptNums == 0..(2^UsizeBits - 1)

\* The priorities that callers present
PlicPriorities == (-1)..(MAX_PRIORITY + 1)

\* The interrupt lines that have a handler (INTERRUPT_HANDLERS.get(num)): the
\* lines of all sources but the last
PlicHandledLines ==
    {INTERRUPT_PLATFORM_START + s : s \in 1..(MAX_NUM - 1)}

\* line - INTERRUPT_PLATFORM_START in usize: a build with overflow checks
\* panics when line is the smaller, a build without them wraps
UsizeSub(a, b, overflow_checks) ==
    IF a < b /\ overflow_checks
    THEN [panic |-> TRUE, v |-> 0]
    ELSE [panic |-> FALSE, v |-> (a - b + 2^UsizeBits) % 2^UsizeBits]

\* The bit of source line in the enable and pending registers: word
\* line / 32, bit line % 32
PlicBit(line) == <<line \div 32, line % 32>>

\* The sources that the context can claim: pending, enabled and of a
\* priority above the threshold
Claimable(regs) ==
    {s \in regs.interrupt_pending :
        /\ PlicBit(s) \in regs.interrupt_enable
        /\ regs.interrupt_priority[s] > regs.priority_threshold}

\* claim_complete.get(): the claimable source of the highest priority, the
\* lowest number among equals, or 0
ClaimRegister(regs) ==
    IF Claimable(regs) = {} THEN 0
    ELSE CHOOSE s \in Claimable(regs) : \A u \in Claimable(regs) :
             \/ regs.interrupt_priority[s] > regs.interrupt_priority[u]
             \/ regs.interrupt_priority[s] = regs.interrupt_priority[u] /\ s <= u

\* claim_interrupt: None when the claim register reads 0; else the threshold
\* is raised to the priority of the claimed source (the claim takes the
\* source out of the pending ones) and the result is the old threshold and
\* the number of the line
ClaimInterrupt(regs) ==
    LET num == ClaimRegister(regs)
    IN  IF num = 0
        THEN [some |-> FALSE, regs |-> regs, old_threshold |-> 0, num |-> 0]
        ELSE [some |-> TRUE,
              regs |-> [regs EXCEPT !.priority_threshold = regs.interrupt_priority[num],
                                    !.interrupt_pending = @ \ {num}],
              old_threshold |-> regs.priority_threshold,
              num |-> num + INTERRUPT_PLATFORM_START]

\* EndInterrupt that opens the threshold altogether
EndInterrupt_Zero(regs, old_threshold) ==
    [regs EXCEPT !.priority_threshold = 0]

\* end_interrupt
EndInterrupt(regs, old_threshold) ==
    [regs EXCEPT !.priority_threshold = old_threshold]

\* set_interrupt_line_priority
PlicSetInterruptLinePriority(regs, line, pri, overflow_checks) ==
    LET l == UsizeSub(line, INTERRUPT_PLATFORM_START, overflow_checks)
    IN  IF l.panic THEN [regs |-> regs, result |-> "panic"]
        ELSE IF l.v > MAX_NUM \/ pri < 0 \/ pri > MAX_PRIORITY
        THEN [regs |-> regs, result |-> "BadParam"]
        ELSE [regs |-> [regs EXCEPT !.interrupt_priority[l.v] = pri],
              result |-> "Ok"]

\* enable_interrupt_line
PlicEnableInterruptLine(regs, line, overflow_checks) ==
    LET l == UsizeSub(line, INTERRUPT_PLATFORM_START, overflow_checks)
    IN  IF l.panic THEN [regs |-> regs, result |-> "panic"]
        ELSE IF l.v > MAX_NUM
        THEN [regs |-> regs, result |-> "BadParam"]
        ELSE [regs |-> [regs EXCEPT !.interrupt_enable = @ \cup {PlicBit(l.v)}],
              result |-> "Ok"]

\* disable_interrupt_line
PlicDisableInterruptLine(regs, line, overflow_checks) ==
    LET l == UsizeSub(line, INTERRUPT_PLATFORM_START, overflow_checks)
    IN  IF l.panic THEN [regs |-> regs, result |-> "panic"]
        ELSE IF l.v > MAX_NUM
        THEN [regs |-> regs, result |-> "BadParam"]
        ELSE [regs |-> [regs EXCEPT !.interrupt_enable = @ \ {PlicBit(l.v)}],
              result |-> "Ok"]

\* is_interrupt_line_pending
PlicIsInterruptLinePending(regs, line, overflow_checks) ==
    LET l == UsizeSub(line, INTERRUPT_PLATFORM_START, overflow_checks)
    IN  IF l.panic THEN [regs |-> regs, result |-> "panic"]
        ELSE IF l.v > MAX_NUM
        THEN [regs |-> regs, result |-> "BadParam"]
        ELSE [regs |-> regs,
              result |-> IF l.v \in regs.interrupt_pending THEN "True" ELSE "False"]

PlicOps == {"set_priority", "enable", "disable", "is_pending"}

\* The interrupt line operations of the driver
PlicLineCall(regs, op, line, pri, overflow_checks) ==
    CASE op = "set_priority" -> PlicSetInterruptLinePriority(regs, line, pri, overflow_checks)
      [] op = "enable" -> PlicEnableInterruptLine(regs, line, overflow_checks)
      [] op = "disable" -> PlicDisableInterruptLine(regs, line, overflow_checks)
      [] OTHER -> PlicIsInterruptLinePending(regs, line, overflow_checks)

\* What the driver leaves alone: the kernel and the other ports
PlicKeeps ==
    /\ UNCHANGED <<st, priority, active_at_start, task_ready_queue, task_ready_bitmap,
                   running_task, tsm, cpu_lock, dispatch_pended, phase, task_thread,
                   exiting, pc, call, line_priority>>
    /\ UNCHANGED intr
    /\ UNCHANGED hist
    /\ UNCHANGED wq
    /\ UNCHANGED fine
    /\ UNCHANGED arm

\* The innermost invocation of interrupt_handler is at position l
PlicAt(l) == plic_handlers # << >> /\ Head(plic_handlers).pc = l

PlicGoto(l) == plic_handlers' = <<[Head(plic_handlers) EXCEPT !.pc = l]>> \o Tail(plic_handlers)

\* Application code executes: a task, or a second-level handler called by
\* interrupt_handler with external interrupts enabled (mie::set_mext)
PlicAppRuns == plic_handlers = << >> \/ PlicAt("handler")

\* A first-level handler or a task calls an interrupt line operation
PlicCall(op, line, pri) ==
    /\ ~panicked
    /\ PlicAppRuns
    /\ \E overflow_checks \in BOOLEAN :
          LET r == PlicLineCall(plic_regs, op, line, pri, overflow_checks)
          IN  /\ plic_regs' = r.regs
              /\ plic_call' = [op |-> op, line |-> line, result |-> r.result,
                               wrote |-> r.regs # plic_regs]
              /\ panicked' = (r.result = "panic")
    /\ UNCHANGED <<plic_handlers, plic_done>>
    /\ PlicKeeps

\* A device raises its interrupt: the source becomes pending
PlicDeviceRaise(s) ==
    /\ ~panicked
    /\ s \notin plic_regs.interrupt_pending
    /\ plic_regs' = [plic_regs EXCEPT !.interrupt_pending = @ \cup {s}]
    /\ UNCHANGED <<plic_handlers, plic_call, plic_done, panicked>>
    /\ PlicKeeps

\* The request of a source goes away before the context has claimed it
PlicDeviceWithdraw(s) ==
    /\ ~panicked
    /\ s \in plic_regs.interrupt_pending
    /\ plic_regs' = [plic_regs EXCEPT !.interrupt_pending = @ \ {s}]
    /\ UNCHANGED <<plic_handlers, plic_call, plic_done, panicked>>
    /\ PlicKeeps

\* The external interrupt is taken: interrupt_handler is entered
PlicInterruptEnter ==
    /\ ~panicked
    /\ PlicAppRuns
    /\ Claimable(plic_regs) # {}
    /\ plic_handlers' =
           <<[pc |-> "claim", entry |-> plic_regs.priority_threshold,
              old_threshold |-> 0, num |-> 0, called |-> FALSE]>> \o plic_handlers
    /\ UNCHANGED <<plic_regs, plic_call, plic_done, panicked>>
    /\ PlicKeeps

\* interrupt_handler: claim_interrupt
PlicClaimInterrupt ==
    /\ PlicAt("claim")
    /\ LET c == ClaimInterrupt(plic_regs)
       IN  /\ plic_regs' = c.regs
           /\ plic_handlers' =
                  <<[Head(plic_handlers) EXCEPT
                        !.pc = IF ~c.some THEN "return"
                               ELSE IF c.num \in PlicHandledLines THEN "call"
                               ELSE "end",
                        !.old_threshold = c.old_threshold,
                        !.num = c.num]>> \o Tail(plic_handlers)
    /\ UNCHANGED <<plic_call, plic_done, panicked>>
    /\ PlicKeeps

\* interrupt_handler: mie::set_mext and the call of the line's handler
PlicCallHandler ==
    /\ PlicAt("call")
    /\ plic_handlers' = <<[Head(plic_handlers) EXCEPT !.pc = "handler", !.called = TRUE]>>
                            \o Tail(plic_handlers)
    /\ UNCHANGED <<plic_regs, plic_call, plic_done, panicked>>
    /\ PlicKeeps

\* The line's handler returns; mie::clear_mext
PlicHandlerReturn ==
    /\ ~panicked
    /\ PlicAt("handler")
    /\ PlicGoto("end")
    /\ UNCHANGED <<plic_regs, plic_call, plic_done, panicked>>
    /\ PlicKeeps

\* interrupt_handler: end_interrupt
PlicEndInterrupt ==
    /\ PlicAt("end")
    /\ plic_regs' = EndInterrupt(plic_regs, Head(plic_handlers).old_threshold)
    /\ PlicGoto("return")
    /\ UNCHANGED <<plic_call, plic_done, panicked>>
    /\ PlicKeeps

\* interrupt_handler returns
PlicInterruptReturn ==
    /\ PlicAt("return")
    /\ plic_handlers' = Tail(plic_handlers)
    /\ plic_done' = [entry |-> Head(plic_handlers).entry,
                     exit |-> plic_regs.priority_threshold,
                     num |-> Head(plic_handlers).num,
                     called |-> Head(plic_handlers).called,
                     depth |-> Len(plic_handlers)]
    /\ UNCHANGED <<plic_regs, plic_call, panicked>>
    /\ PlicKeeps

InitPlic ==
    /\ Init
    /\ st = [t \in Tasks |-> "Dormant"]
    /\ priority = [t \in Tasks |-> 0]

\* The lines that application code passes to the driver while interrupts are
\* handled: the lines of the sources
PlicLines == {INTERRUPT_PLATFORM_START + s : s \in 1..MAX_NUM}

NextPlic ==
    \/ \E op \in {"set_priority", "enable", "disable"} : \E line \in PlicLines :
          \E pri \in 0..MAX_PRIORITY : PlicCall(op, line, pri)
    \/ \E s \in PlicSources \ {0} : PlicDeviceRaise(s)
    \/ \E s \in PlicSources \ {0} : PlicDeviceWithdraw(s)
    \/ PlicInterruptEnter
    \/ PlicClaimInterrupt
    \/ PlicCallHandler
    \/ PlicHandlerReturn
    \/ PlicEndInterrupt
    \/ PlicInterruptReturn

SpecPlic == InitPlic /\ [][NextPlic]_vars

\* The interrupt line operations alone, with every interrupt number and
\* every priority
NextPlicLine ==
    \E op \in PlicOps : \E line \in InterruptNums : \E pri \in PlicPriorities :
        PlicCall(op, line, pri)

SpecPlicLine == InitPlic /\ [][NextPlicLine]_vars


\* C39: whatever the nesting of external interrupts, the priority threshold
\* of the context when interrupt_handler returns is the one it had when the
\* handler was entered; when the claim register reads 0 no handler of a
\* line is called and the threshold stays as it is throughout.
C39_ThresholdRestored ==
    /\ plic_done.exit = plic_done.entry
    /\ plic_done.num = 0 => ~plic_done.called
    /\ PlicAt("return") =>
          /\ plic_regs.priority_threshold = Head(plic_handlers).entry
          /\ Head(plic_handlers).num = 0 => ~Head(plic_handlers).called
    /\ \A i \in 1..Len(plic_handlers) :
          plic_handlers[i].num = 0 =>
              /\ plic_handlers[i].pc \in {"claim", "return"}
              /\ i = 1
              /\ plic_regs.priority_threshold = plic_handlers[i].entry

\* an invocation of interrupt_handler that was nested in the handler of
\* another line, with the threshold raised, has claimed a source and returned
C39_Witness ==
    /\ plic_done.depth = 2
    /\ plic_done.entry > 0
    /\ plic_done.num # 0
    /\ PlicAt("handler")


\* The line of the last call is outside the lines of the platform
PlicLineOutOfRange ==
    plic_call.line \notin
        INTERRUPT_PLATFORM_START..(INTERRUPT_PLATFORM_START + MAX_NUM)

\* C40: set_interrupt_line_priority, enable_interrupt_line,
\* disable_interrupt_line and is_interrupt_line_pending return BadParam and
\* write no register for every line outside INTERRUPT_PLATFORM_START ..=
\* INTERRUPT_PLATFORM_START + MAX_NUM, the lines below
\* INTERRUPT_PLATFORM_START included.
C40_RangeCheck ==
    (plic_call.op \in PlicOps /\ PlicLineOutOfRange) =>
        /\ plic_call.result = "BadParam"
        /\ ~plic_call.wrote

====
